---- MODULE Spec2Model ----
(***************************************************************************)
(* Order workflow of the otel-ecommerce API: POST /api/orders              *)
(* (routes/orders.js) over the inventory service (services/inventory.js),  *)
(* the payment simulator (services/payment.js), the PostgreSQL store       *)
(* (services/database.js, schema in scripts/setup-db) and the Redis cache  *)
(* (services/cache.js).                                                    *)
(*                                                                         *)
(* Every `await` of a handler is one step of the request that runs it, so  *)
(* requests interleave exactly where the event loop lets them.  The store  *)
(* is PostgreSQL at READ COMMITTED: a transaction's writes are invisible   *)
(* to others until COMMIT, an UPDATE takes the row's lock until the        *)
(* transaction ends, and an UPDATE that meets a locked row waits and then  *)
(* re-evaluates its WHERE clause on the committed row.                     *)
(***************************************************************************)
EXTENDS Integers, Sequences, FiniteSets, TLC

\* ------------------------------------------------------------------ bounds
MaxReqs == 2        \* concurrent create-order requests
MaxStock == 2       \* largest stock_quantity a product starts with
MaxItems == 2       \* longest item list of a request body
MaxQty == 1         \* largest quantity of one item
MaxCalls == 3       \* concurrent reserveInventory calls of the reservation test
MaxUnit == 2        \* largest quantity per call of the reservation test
MaxTestStock == 4   \* largest stock of the reservation test
MaxPriceItems == 2  \* longest item list of the pricing runs
MaxPriceQty == 3    \* largest quantity of one item of the pricing runs
MaxReaders == 2     \* concurrent GET requests beside the create-order request
MaxEnvLines == 2    \* lines of the .env file before the first run of set-mode.js

\* ------------------------------------------------------- IEEE-754 binary64
\* JavaScript numbers are binary64.  A non-negative double d below 2^27 is
\* held as the natural number d * 2^Scale, written in limbs of LimbBits bits,
\* least significant first, without leading zero limbs (zero is <<>>).
LimbBits == 15
Base == 2 ^ LimbBits
MantissaBits == 53
Scale == 59
GuardBits == 2
CentsPerUnit == 100

Limb(bs, bi) == IF bi >= 1 /\ bi <= Len(bs) THEN bs[bi] ELSE 0

RECURSIVE BTrim(_)
BTrim(ts) ==
  IF ts = <<>> THEN ts
  ELSE IF ts[Len(ts)] = 0 THEN BTrim(SubSeq(ts, 1, Len(ts) - 1)) ELSE ts

BFromInt(fn) == BTrim(<<fn % Base, (fn \div Base) % Base, fn \div (Base * Base)>>)
BToInt(ib) == Limb(ib, 1) + Base * Limb(ib, 2)

BitLen(na) ==
  IF na = <<>> THEN 0
  ELSE LimbBits * (Len(na) - 1)
       + (CHOOSE nb \in 1..LimbBits : 2 ^ (nb - 1) <= na[Len(na)] /\ na[Len(na)] < 2 ^ nb)
BitAt(pa, pk) == (Limb(pa, (pk \div LimbBits) + 1) \div (2 ^ (pk % LimbBits))) % 2
LowNonZero(wa, wk) ==
  \/ \E wi \in 1..Len(wa) : wi <= wk \div LimbBits /\ wa[wi] # 0
  \/ Limb(wa, (wk \div LimbBits) + 1) % (2 ^ (wk % LimbBits)) # 0

BShr(ra, rk) ==
  LET rl == rk \div LimbBits
      rb == rk % LimbBits
  IN BTrim([ri \in 1..(IF Len(ra) > rl THEN Len(ra) - rl ELSE 0) |->
              (ra[ri + rl] \div (2 ^ rb))
              + (Limb(ra, ri + rl + 1) % (2 ^ rb)) * (2 ^ (LimbBits - rb))])
BShl(sa, sk) ==
  LET sl == sk \div LimbBits
      sb == sk % LimbBits
  IN BTrim([si \in 1..(Len(sa) + sl + 1) |->
              (Limb(sa, si - sl) % (2 ^ (LimbBits - sb))) * (2 ^ sb)
              + (Limb(sa, si - sl - 1) \div (2 ^ (LimbBits - sb)))])
BLow(la, lk) ==
  BTrim([li \in 1..((lk \div LimbBits) + 1) |->
           IF li <= lk \div LimbBits THEN Limb(la, li)
           ELSE Limb(la, li) % (2 ^ (lk % LimbBits))])

RECURSIVE BAddC(_, _, _, _)
BAddC(xa, xb, xi, xc) ==
  IF xi > Len(xa) /\ xi > Len(xb)
    THEN (IF xc = 0 THEN <<>> ELSE <<xc>>)
    ELSE LET xs == Limb(xa, xi) + Limb(xb, xi) + xc
         IN <<xs % Base>> \o BAddC(xa, xb, xi + 1, xs \div Base)
BAdd(ya, yb) == BAddC(ya, yb, 1, 0)

RECURSIVE BMulC(_, _, _, _)
BMulC(ma, mk, mi, mc) ==
  IF mi > Len(ma) THEN (IF mc = 0 THEN <<>> ELSE <<mc>>)
  ELSE LET mv == ma[mi] * mk + mc
       IN <<mv % Base>> \o BMulC(ma, mk, mi + 1, mv \div Base)
BMulSmall(ka, kk) == BTrim(BMulC(ka, kk, 1, 0))

RECURSIVE BDivStep(_, _, _, _)
BDivStep(da, dd, di, drem) ==
  IF di = 0 THEN [q |-> <<>>, r |-> drem]
  ELSE LET dv == Base * drem + da[di]
           lower == BDivStep(da, dd, di - 1, dv % dd)
       IN [q |-> Append(lower.q, dv \div dd), r |-> lower.r]
BDivSmall(ea, ed) ==
  LET ex == BDivStep(ea, ed, Len(ea), 0) IN [q |-> BTrim(ex.q), r |-> ex.r]

RECURSIVE BLessFrom(_, _, _)
BLessFrom(ca, cb, ci) ==
  IF ci = 0 THEN FALSE
  ELSE IF Limb(ca, ci) # Limb(cb, ci) THEN Limb(ca, ci) < Limb(cb, ci)
  ELSE BLessFrom(ca, cb, ci - 1)
BLess(ga, gb) == BLessFrom(ga, gb, IF Len(ga) > Len(gb) THEN Len(ga) ELSE Len(gb))

\* Round to nearest, ties to even, at MantissaBits significant bits; `sticky`
\* says that the exact value lies above m by less than one unit of m.
RoundEven(m, sticky) ==
  IF BitLen(m) <= MantissaBits THEN m
  ELSE LET drop == BitLen(m) - MantissaBits
           top == BShr(m, drop)
           up == /\ BitAt(m, drop - 1) = 1
                 /\ (sticky \/ LowNonZero(m, drop - 1) \/ BitAt(m, drop) = 1)
       IN BShl(IF up THEN BAdd(top, <<1>>) ELSE top, drop)

\* parseFloat(product.price): the double nearest to the DECIMAL(10,2) text,
\* the price being given in cents.
parseFloat(cents) ==
  LET pd == BDivSmall(BShl(BFromInt(cents), Scale + GuardBits), CentsPerUnit)
  IN BShr(RoundEven(pd.q, pd.r # 0), GuardBits)

\* parseFloat(product.price) * item.quantity
FMul(fa, fq) == RoundEven(BMulSmall(fa, fq), FALSE)

\* totalAmount += itemTotal
FAdd(ha, hb) == RoundEven(BAdd(ha, hb), FALSE)

\* a column that cuts the text off after two decimals
numericTruncate(va) == {BToInt(BShr(BMulSmall(va, CentsPerUnit), Scale))}

\* What the DECIMAL(10,2) column keeps of a double parameter, in cents.  The
\* driver sends the shortest decimal text that reads back as the double, and
\* the column rounds that text half away from zero at two decimals.  The text
\* lies within half a unit in the last place of the double; when that could
\* move it across a rounding boundary both outcomes are possible.
numericRound(va) ==
  LET vx == BMulSmall(va, CentsPerUnit)
      frac == BLow(vx, Scale)
      int == BToInt(BShr(vx, Scale))
      half == BShl(<<1>>, Scale - 1)
      ulp == BShl(<<1>>, IF BitLen(va) > MantissaBits THEN BitLen(va) - MantissaBits ELSE 0)
      window == BMulSmall(ulp, CentsPerUnit \div 2)
      tie == ~BLess(BAdd(frac, window), half) /\ ~BLess(BAdd(half, window), frac)
  IN IF tie THEN {int, int + 1}
     ELSE IF BLess(frac, half) THEN {int} ELSE {int + 1}

\* ------------------------------------------------------------- the store
\* Rows of the seed data (scripts/setup-db): the first user, the first two
\* products with their prices in cents; 99999 is the id the error scenarios
\* use for a row that does not exist.
Users == {1}
Products == {1, 2}
SeedPrice == (1 :> 129999) @@ (2 :> 89999)
MissingId == 99999
PaymentMethods == {"credit_card", "debit_card", "paypal"}

\* new Pool({ max: 20, ... }): the clients the pool hands out at most
PoolMax == 20

NoReq == 0
NoOrder == 0

VARIABLES
  price,           \* products.price, in cents (DECIMAL(10,2))
  stock_quantity,  \* products.stock_quantity, committed value
  rowLock,         \* product row -> the request whose open transaction updated it
  uncommitted,     \* product row -> stock_quantity as written by the lock holder
  orders,          \* committed rows of orders, by id
  order_items,     \* committed rows of order_items, by order id
  orders_id_seq,   \* next value of the SERIAL orders.id
  txOrder,         \* request -> the order row its open transaction inserted
  txItems,         \* request -> the order_items rows its open transaction inserted
  pc,              \* request -> the await it is suspended at
  caller,          \* request -> "createOrder" or "test" (a direct service call)
  body,            \* request -> req.body
  idx,             \* request -> position of the running `for (const item of ...)`
  totalAmount,     \* request -> the double totalAmount
  productDetails,  \* request -> productDetails
  inventoryCheck,  \* request -> results of checkInventory
  orderId,         \* request -> orderId
  paymentResult,   \* request -> paymentResult
  error,           \* request -> the Error being thrown
  response,        \* request -> what res.status(...).json(...) sent
  paymentOutcome,  \* request -> how its processPayment ended
  calls,           \* request -> how often each service function was entered, and
                   \* how often a pool client was acquired and released
  reservation,     \* request -> how its reserveInventory ended
  held,            \* request -> per product, the stock its commits took and not gave back
  stock0,          \* products.stock_quantity before the first request
  cache,           \* the Redis keys product:<id>, the products:* listing, order:<id>
  redisClient,     \* cache.js redisClient: "null", "open", or "closed" (not isOpen)
  req,             \* request -> the JSON body as it arrived, before validation
  fetched,         \* request -> what a GET handler read and sends
  health,          \* request -> dbHealth and cacheHealth of GET /health
  envFile,         \* the .env file at envPath, as set-mode.js reads and writes it
  lastRun          \* the last run of set-mode.js: argument, exit code, mode printed

vars == <<price, stock_quantity, rowLock, uncommitted, orders, order_items,
          orders_id_seq, txOrder, txItems, pc, caller, body, idx, totalAmount,
          productDetails, inventoryCheck, orderId, paymentResult, error,
          response, paymentOutcome, calls, reservation, held, stock0, cache,
          redisClient, req, fetched, health, envFile, lastRun>>

storeVars == <<price, stock_quantity, rowLock, uncommitted, orders, order_items,
               orders_id_seq, txOrder, txItems>>
productVars == <<price, stock_quantity, rowLock, uncommitted>>
orderVars == <<orders, order_items, orders_id_seq, txOrder, txItems>>
localVars == <<idx, totalAmount, productDetails, inventoryCheck, orderId,
               paymentResult>>
history == <<paymentOutcome, reservation, held, stock0>>
scriptVars == <<envFile, lastRun>>
sideVars == <<redisClient, req, fetched, health, scriptVars>>

Procs == DOMAIN pc

\* ------------------------------------------------------------ request data
\* Bodies the validators accept.  An item naming a missing product, and a body
\* naming a missing user, end the request at their lookup whatever else they
\* hold, so one quantity and one item list stand for all of them.
Items == [productId : Products, quantity : 1..MaxQty]
           \cup {[productId |-> MissingId, quantity |-> 1]}
ItemLists == UNION {[1..n -> Items] : n \in 1..MaxItems}
Bodies == [userId : Users, items : ItemLists, paymentMethod : {"credit_card"}]
            \cup {[userId |-> MissingId, items |-> <<[productId |-> 1, quantity |-> 1]>>,
                   paymentMethod |-> "credit_card"]}

NoBody == [userId |-> MissingId, items |-> <<>>, paymentMethod |-> "credit_card"]
NoError == [message |-> "", code |-> "", statusCode |-> 0, details |-> <<>>]
NoResponse == [status |-> 0, code |-> "", message |-> ""]
NoCalls == [reserveInventory |-> 0, processPayment |-> 0, releaseInventory |-> 0,
            getClient |-> 0, release |-> 0]

\* a JSON value of the request body: an integer number, another number, a
\* string, an array, or a field that is not there
Absent == [kind |-> "absent", int |-> 0, str |-> "", elems |-> <<>>]
JInt(n) == [kind |-> "int", int |-> n, str |-> "", elems |-> <<>>]
JFloat == [kind |-> "float", int |-> 0, str |-> "", elems |-> <<>>]
JString(t) == [kind |-> "string", int |-> 0, str |-> t, elems |-> <<>>]
JArray(es) == [kind |-> "array", int |-> 0, str |-> "", elems |-> es]
NoRequest == [userId |-> Absent, items |-> Absent, paymentMethod |-> Absent]

NoFetch == [target |-> 0, cached |-> FALSE, order |-> <<>>, stock |-> <<>>]
NoHealth == [database |-> "pending", cache |-> "pending", client |-> "unseen"]
EmptyCache == [product |-> [p \in Products |-> <<>>], products |-> <<>>, order |-> <<>>]

\* A line of the .env file is the sequence of its tokens; the file is its
\* lines, each ended by a newline except the last one when `open`.
ModeLine(m) == <<"OTEL_MODE", "=", m>>
CommentLine == <<"#", " ", "OpenTelemetry Mode: 'direct' or 'collector'">>
SeedEnv == [exists |-> TRUE, lines |-> <<<<"PORT", "=", "3001">>, ModeLine("direct")>>,
            open |-> FALSE]
NoRun == [argv |-> "none", exitCode |-> 0, reported |-> <<>>]

NotFoundError(what) ==
  [message |-> what, code |-> "NOT_FOUND", statusCode |-> 404, details |-> <<>>]
InsufficientInventoryError(unavailableItems) ==
  [message |-> "Insufficient inventory for one or more items",
   code |-> "INSUFFICIENT_INVENTORY", statusCode |-> 409, details |-> unavailableItems]
ReserveError ==
  [message |-> "Failed to reserve inventory: insufficient stock",
   code |-> "", statusCode |-> 0, details |-> <<>>]
PaymentError ==
  [message |-> "Payment failed", code |-> "PAYMENT_FAILED", statusCode |-> 0,
   details |-> <<>>]
CacheError ==
  [message |-> "cache call rejected", code |-> "", statusCode |-> 0, details |-> <<>>]
StoreError ==
  [message |-> "statement failed", code |-> "", statusCode |-> 0, details |-> <<>>]
DeadlockError ==
  [message |-> "deadlock detected", code |-> "40P01", statusCode |-> 0, details |-> <<>>]

\* errorHandler: the status is decided by err.code when it is one of the four
\* known codes, otherwise by err.statusCode, otherwise 500.
errorHandler(err) ==
  [status |-> IF err.code = "PAYMENT_FAILED" THEN 422
              ELSE IF err.code = "INSUFFICIENT_INVENTORY" THEN 409
              ELSE IF err.code = "NOT_FOUND" THEN 404
              ELSE IF err.code = "VALIDATION_ERROR" THEN 400
              ELSE IF err.statusCode # 0 THEN err.statusCode ELSE 500,
   code |-> IF err.code # "" THEN err.code ELSE "INTERNAL_ERROR",
   message |-> err.message]

\* asyncHandler: a rejection of the route's promise goes to errorHandler
Throw(r, err) ==
  /\ error' = [error EXCEPT ![r] = err]
  /\ response' = [response EXCEPT ![r] = errorHandler(err)]
  /\ pc' = [pc EXCEPT ![r] = "done"]

\* ------------------------------------------------------------------- Init
InitRows ==
  /\ rowLock = [p \in Products |-> NoReq]
  /\ uncommitted = [p \in Products |-> 0]
  /\ orders = <<>>
  /\ order_items = <<>>
  /\ orders_id_seq = 1
  /\ cache = EmptyCache
  /\ redisClient = "open"

InitStore ==
  /\ InitRows
  /\ envFile = SeedEnv
  /\ lastRun = NoRun

InitLocals(P, firstPc, who) ==
  /\ txOrder = [r \in P |-> <<>>]
  /\ txItems = [r \in P |-> <<>>]
  /\ pc = [r \in P |-> firstPc]
  /\ caller = [r \in P |-> who]
  /\ idx = [r \in P |-> 0]
  /\ totalAmount = [r \in P |-> <<>>]
  /\ productDetails = [r \in P |-> <<>>]
  /\ inventoryCheck = [r \in P |-> <<>>]
  /\ orderId = [r \in P |-> NoOrder]
  /\ paymentResult = [r \in P |-> "none"]
  /\ error = [r \in P |-> NoError]
  /\ response = [r \in P |-> NoResponse]
  /\ paymentOutcome = [r \in P |-> "none"]
  /\ calls = [r \in P |-> NoCalls]
  /\ reservation = [r \in P |-> "none"]
  /\ held = [r \in P |-> [p \in Products |-> 0]]
  /\ stock0 = stock_quantity
  /\ req = [r \in P |-> NoRequest]
  /\ fetched = [r \in P |-> NoFetch]
  /\ health = [r \in P |-> NoHealth]

Init ==
  /\ price = SeedPrice
  /\ stock_quantity \in [Products -> 0..MaxStock]
  /\ InitStore
  /\ InitLocals(1..MaxReqs, "idle", "createOrder")
  /\ body = [r \in 1..MaxReqs |-> NoBody]

\* ------------------------------------------------- POST /api/orders, 1 - 3
\* The validators accepted the body; the handler runs up to its first await.
ReceiveFrom(r, B) ==
  /\ pc[r] = "idle"
  /\ \E b \in B : body' = [body EXCEPT ![r] = b]
  /\ pc' = [pc EXCEPT ![r] = "validate_user"]
  /\ UNCHANGED <<storeVars, caller, localVars, error, response, calls, history>>
  /\ UNCHANGED <<cache, sideVars>>
Receive(r) == ReceiveFrom(r, Bodies)

\* step 1 without its `rows.length === 0` test
ValidateUserUnchecked(r) ==
  /\ pc[r] = "validate_user"
  /\ pc' = [pc EXCEPT ![r] = "lookup_product"]
  /\ idx' = [idx EXCEPT ![r] = 1]
  /\ UNCHANGED <<storeVars, caller, body, totalAmount, productDetails,
                 inventoryCheck, orderId, paymentResult, error, response, calls,
                 history>>
  /\ UNCHANGED <<cache, sideVars>>

\* Step 1: SELECT ... FROM users WHERE id = $1
ValidateUser(r) ==
  /\ pc[r] = "validate_user"
  /\ IF body[r].userId \notin Users
       THEN /\ Throw(r, NotFoundError("User not found"))
            /\ UNCHANGED idx
       ELSE /\ pc' = [pc EXCEPT ![r] = "lookup_product"]
            /\ idx' = [idx EXCEPT ![r] = 1]
            /\ UNCHANGED <<error, response>>
  /\ UNCHANGED <<storeVars, caller, body, totalAmount, productDetails,
                 inventoryCheck, orderId, paymentResult, calls, history>>
  /\ UNCHANGED <<cache, sideVars>>

\* Step 2, one turn of the loop: SELECT ... FROM products WHERE id = $1
LookupProduct(r) ==
  /\ pc[r] = "lookup_product"
  /\ LET item == body[r].items[idx[r]]
     IN IF item.productId \notin Products
          THEN /\ Throw(r, NotFoundError("Product not found"))
               /\ UNCHANGED <<idx, totalAmount, productDetails>>
          ELSE LET itemTotal == FMul(parseFloat(price[item.productId]), item.quantity)
               IN /\ totalAmount' = [totalAmount EXCEPT ![r] = FAdd(@, itemTotal)]
                  /\ productDetails' = [productDetails EXCEPT ![r] =
                       Append(@, [productId |-> item.productId,
                                  quantity |-> item.quantity,
                                  price |-> price[item.productId],
                                  itemTotal |-> itemTotal])]
                  /\ IF idx[r] = Len(body[r].items)
                       THEN /\ pc' = [pc EXCEPT ![r] = "check_inventory"]
                            /\ idx' = [idx EXCEPT ![r] = 1]
                       ELSE /\ idx' = [idx EXCEPT ![r] = @ + 1]
                            /\ UNCHANGED pc
                  /\ UNCHANGED <<error, response>>
  /\ UNCHANGED <<storeVars, caller, body, inventoryCheck, orderId, paymentResult,
                 calls, history>>
  /\ UNCHANGED <<cache, sideVars>>

\* isAvailable with the comparison strict
isAvailableStrict(stock, requested) == stock > requested
\* const isAvailable = stock_quantity >= item.quantity
isAvailable(stock, requested) == stock >= requested

\* checkInventory counting an item of an unknown product as sufficient
checkItemLenient(item) ==
  IF item.productId \notin Products
    THEN [productId |-> item.productId, found |-> FALSE, requested |-> item.quantity,
          available |-> 0, sufficient |-> TRUE]
    ELSE [productId |-> item.productId, found |-> TRUE, requested |-> item.quantity,
          available |-> stock_quantity[item.productId],
          sufficient |-> isAvailable(stock_quantity[item.productId], item.quantity)]

\* checkInventory, the result pushed for one item
checkItem(item) ==
  IF item.productId \notin Products
    THEN [productId |-> item.productId, found |-> FALSE, requested |-> item.quantity,
          available |-> 0, sufficient |-> FALSE]
    ELSE [productId |-> item.productId, found |-> TRUE, requested |-> item.quantity,
          available |-> stock_quantity[item.productId],
          sufficient |-> isAvailable(stock_quantity[item.productId], item.quantity)]

\* Step 3, one turn of checkInventory's loop; after the last item the handler
\* continues without suspending: it throws, or calls getClient().
CheckInventory(r) ==
  /\ pc[r] = "check_inventory"
  /\ LET results == Append(inventoryCheck[r], checkItem(body[r].items[idx[r]]))
         allAvailable == \A i \in 1..Len(results) : results[i].sufficient
         unavailableItems == SelectSeq(results, LAMBDA res : ~res.sufficient)
     IN /\ inventoryCheck' = [inventoryCheck EXCEPT ![r] = results]
        /\ IF idx[r] < Len(body[r].items)
             THEN /\ idx' = [idx EXCEPT ![r] = @ + 1]
                  /\ UNCHANGED <<pc, error, response>>
             ELSE IF ~allAvailable
               THEN /\ Throw(r, InsufficientInventoryError(unavailableItems))
                    /\ UNCHANGED idx
               ELSE /\ pc' = [pc EXCEPT ![r] = "begin_order"]
                    /\ UNCHANGED <<idx, error, response>>
  /\ UNCHANGED <<storeVars, caller, body, totalAmount, productDetails, orderId,
                 paymentResult, calls, history>>
  /\ UNCHANGED <<cache, sideVars>>

\* --------------------------------------------------- POST /api/orders, 4
\* getClient(); BEGIN
BeginOrder(r) ==
  /\ pc[r] = "begin_order"
  /\ pc' = [pc EXCEPT ![r] = "insert_order"]
  /\ calls' = [calls EXCEPT ![r].getClient = @ + 1]
  /\ UNCHANGED <<storeVars, caller, body, localVars, error, response, history>>
  /\ UNCHANGED <<cache, sideVars>>

\* the INSERT of the order run on the pool, outside the transaction
InsertOrderAutocommit(r) ==
  /\ pc[r] = "insert_order"
  /\ \E total \in numericRound(totalAmount[r]) :
       orders' = orders @@ (orders_id_seq :>
         [user_id |-> body[r].userId, status |-> "pending", total_amount |-> total,
          payment_method |-> body[r].paymentMethod, payment_status |-> "pending"])
  /\ orderId' = [orderId EXCEPT ![r] = orders_id_seq]
  /\ orders_id_seq' = orders_id_seq + 1
  /\ idx' = [idx EXCEPT ![r] = 1]
  /\ pc' = [pc EXCEPT ![r] = "insert_item"]
  /\ UNCHANGED <<productVars, order_items, txOrder, txItems, caller, body,
                 totalAmount, productDetails, inventoryCheck, paymentResult, error,
                 response, calls, history>>
  /\ UNCHANGED <<cache, sideVars>>

\* INSERT INTO orders ... VALUES (userId, 'pending', totalAmount, paymentMethod,
\* 'pending') RETURNING id.  nextval() is not undone by a rollback.
InsertOrder(r) ==
  /\ pc[r] = "insert_order"
  /\ \E total \in numericRound(totalAmount[r]) :
       txOrder' = [txOrder EXCEPT ![r] =
         <<[user_id |-> body[r].userId, status |-> "pending", total_amount |-> total,
            payment_method |-> body[r].paymentMethod, payment_status |-> "pending"]>>]
  /\ orderId' = [orderId EXCEPT ![r] = orders_id_seq]
  /\ orders_id_seq' = orders_id_seq + 1
  /\ idx' = [idx EXCEPT ![r] = 1]
  /\ pc' = [pc EXCEPT ![r] = "insert_item"]
  /\ UNCHANGED <<productVars, orders, order_items, txItems, caller, body,
                 totalAmount, productDetails, inventoryCheck, paymentResult, error,
                 response, calls, history>>
  /\ UNCHANGED <<cache, sideVars>>

\* INSERT INTO order_items ... VALUES (orderId, productId, quantity, price),
\* one turn of the loop over productDetails
InsertItem(r) ==
  /\ pc[r] = "insert_item"
  /\ LET item == productDetails[r][idx[r]]
     IN txItems' = [txItems EXCEPT ![r] =
          Append(@, [order_id |-> orderId[r], product_id |-> item.productId,
                     quantity |-> item.quantity, price |-> item.price])]
  /\ IF idx[r] = Len(productDetails[r])
       THEN /\ pc' = [pc EXCEPT ![r] = "commit_order"]
            /\ UNCHANGED idx
       ELSE /\ idx' = [idx EXCEPT ![r] = @ + 1]
            /\ UNCHANGED pc
  /\ UNCHANGED <<productVars, orders, order_items, orders_id_seq, txOrder, caller,
                 body, totalAmount, productDetails, inventoryCheck, orderId,
                 paymentResult, error, response, calls, history>>
  /\ UNCHANGED <<cache, sideVars>>

\* An INSERT of the transaction is rejected by the store; the catch block
\* will roll the transaction back.
InsertFails(r) ==
  /\ pc[r] \in {"insert_order", "insert_item"}
  /\ error' = [error EXCEPT ![r] = StoreError]
  /\ pc' = [pc EXCEPT ![r] = "rollback_order"]
  /\ UNCHANGED <<storeVars, caller, body, localVars, response, calls, history>>
  /\ UNCHANGED <<cache, sideVars>>

\* COMMIT; client.release(); then reserveInventory is entered and suspends at
\* its getClient()
CommitOrder(r) ==
  /\ pc[r] = "commit_order"
  /\ orders' = orders @@ (orderId[r] :> txOrder[r][1])
  /\ order_items' = order_items @@ (orderId[r] :> txItems[r])
  /\ txOrder' = [txOrder EXCEPT ![r] = <<>>]
  /\ txItems' = [txItems EXCEPT ![r] = <<>>]
  /\ pc' = [pc EXCEPT ![r] = "reserve_begin"]
  /\ calls' = [calls EXCEPT ![r].release = @ + 1]
  /\ UNCHANGED <<productVars, orders_id_seq, caller, body, localVars, error,
                 response, history>>
  /\ UNCHANGED <<cache, sideVars>>

\* ROLLBACK; throw error; client.release()
RollbackOrder(r) ==
  /\ pc[r] = "rollback_order"
  /\ txOrder' = [txOrder EXCEPT ![r] = <<>>]
  /\ txItems' = [txItems EXCEPT ![r] = <<>>]
  /\ Throw(r, error[r])
  /\ calls' = [calls EXCEPT ![r].release = @ + 1]
  /\ UNCHANGED <<productVars, orders, order_items, orders_id_seq, caller, body,
                 localVars, history>>
  /\ UNCHANGED <<cache, sideVars>>

\* ------------------------------------------------------------- cache keys
\* redisClient.del(`product:${id}`)
cacheDel(id) ==
  IF id \in Products THEN [cache EXCEPT !.product[id] = <<>>] ELSE cache

\* the end of one turn of `for (const item of items)` in reserveInventory
\* and releaseInventory: the next item, or COMMIT
AfterInvalidate(r, commitPc, updatePc) ==
  IF idx[r] = Len(body[r].items)
    THEN /\ pc' = [pc EXCEPT ![r] = commitPc]
         /\ UNCHANGED idx
    ELSE /\ pc' = [pc EXCEPT ![r] = updatePc]
         /\ idx' = [idx EXCEPT ![r] = @ + 1]

\* ------------------------------------------------------- row-level locking
\* the UPDATE of reserveInventory without its floor
NoFloorGuard(stock, requested) == TRUE
\* the floor with the comparison strict
FloorGuardStrict(stock, requested) == stock > requested
\* WHERE ... AND stock_quantity >= $1
FloorGuard(stock, requested) == stock >= requested

\* stock_quantity of row p as the transaction of request r reads it
Visible(r, p) == IF rowLock[p] = r THEN uncommitted[p] ELSE stock_quantity[p]

\* The request whose transaction the UPDATE of r is waiting for.  The UPDATE of
\* reserveInventory evaluates `stock_quantity >= $1` on the committed row first
\* and only then waits for the row's lock; releaseInventory's has no such test.
WaitsFor(r) ==
  IF pc[r] \notin {"reserve_update", "release_update"} THEN NoReq
  ELSE LET item == body[r].items[idx[r]]
       IN IF /\ item.productId \in Products
             /\ rowLock[item.productId] \notin {NoReq, r}
             /\ (pc[r] = "release_update"
                   \/ FloorGuard(stock_quantity[item.productId], item.quantity))
            THEN rowLock[item.productId]
            ELSE NoReq

RECURSIVE WaitChain(_, _)
WaitChain(r, n) ==
  IF n = 0 \/ r = NoReq THEN r ELSE WaitChain(WaitsFor(r), n - 1)
Deadlocked(r) == \E n \in 1..Cardinality(Procs) : WaitChain(r, n) = r

\* COMMIT of the transaction of r that updated product rows
CommitStock(r) ==
  /\ stock_quantity' = [p \in Products |->
       IF rowLock[p] = r THEN uncommitted[p] ELSE stock_quantity[p]]
  /\ rowLock' = [p \in Products |-> IF rowLock[p] = r THEN NoReq ELSE rowLock[p]]
  /\ held' = [held EXCEPT ![r] = [p \in Products |->
       IF rowLock[p] = r THEN @[p] + stock_quantity[p] - uncommitted[p] ELSE @[p]]]
  /\ UNCHANGED <<price, uncommitted>>

\* ROLLBACK of the transaction of r that updated product rows
RollbackStock(r) ==
  /\ rowLock' = [p \in Products |-> IF rowLock[p] = r THEN NoReq ELSE rowLock[p]]
  /\ UNCHANGED <<price, stock_quantity, uncommitted, held>>

\* --------------------------------------------------------- reserveInventory
\* getClient(); BEGIN
ReserveBegin(r) ==
  /\ pc[r] = "reserve_begin"
  /\ pc' = [pc EXCEPT ![r] = "reserve_update"]
  /\ idx' = [idx EXCEPT ![r] = 1]
  /\ calls' = [calls EXCEPT ![r].reserveInventory = @ + 1, ![r].getClient = @ + 1]
  /\ UNCHANGED <<storeVars, caller, body, totalAmount, productDetails,
                 inventoryCheck, orderId, paymentResult, error, response, history>>
  /\ UNCHANGED <<cache, sideVars>>

\* UPDATE products SET stock_quantity = stock_quantity - $1
\*  WHERE id = $2 AND stock_quantity >= $1 RETURNING ...
\* No row returned: throw new Error('Failed to reserve inventory ...').
ReserveUpdate(r) ==
  /\ pc[r] = "reserve_update"
  /\ WaitsFor(r) = NoReq
  /\ LET item == body[r].items[idx[r]]
         p == item.productId
     IN IF /\ p \in Products
           /\ rowLock[p] \in {NoReq, r}
           /\ FloorGuard(Visible(r, p), item.quantity)
          THEN /\ uncommitted' = [uncommitted EXCEPT ![p] = Visible(r, p) - item.quantity]
               /\ rowLock' = [rowLock EXCEPT ![p] = r]
               /\ pc' = [pc EXCEPT ![r] = "reserve_del"]
               /\ UNCHANGED error
          ELSE /\ error' = [error EXCEPT ![r] = ReserveError]
               /\ pc' = [pc EXCEPT ![r] = "reserve_rollback"]
               /\ UNCHANGED <<uncommitted, rowLock>>
  /\ UNCHANGED <<price, stock_quantity, orderVars, caller, body, localVars, response,
                 calls, history>>
  /\ UNCHANGED <<cache, sideVars>>

\* await cache.del(`product:${id}`)
ReserveCacheDel(r) ==
  /\ pc[r] = "reserve_del"
  /\ cache' = cacheDel(body[r].items[idx[r]].productId)
  /\ pc' = [pc EXCEPT ![r] = "reserve_delpattern"]
  /\ UNCHANGED <<storeVars, caller, body, localVars, error, response, calls,
                 history>>
  /\ UNCHANGED sideVars

\* await cache.deletePattern('products:*'); next item, or COMMIT
ReserveCacheDeletePattern(r) ==
  /\ pc[r] = "reserve_delpattern"
  /\ IF cache.products # <<>>
       THEN /\ pc' = [pc EXCEPT ![r] = "reserve_delkeys"]
            /\ UNCHANGED idx
       ELSE AfterInvalidate(r, "reserve_commit", "reserve_update")
  /\ UNCHANGED cache
  /\ UNCHANGED <<storeVars, caller, body, totalAmount, productDetails,
                 inventoryCheck, orderId, paymentResult, error, response, calls,
                 history>>
  /\ UNCHANGED sideVars

\* redisClient.del / redisClient.keys rejects: cache.js has no catch, the
\* rejection reaches reserveInventory's catch block
ReserveCacheFails(r) ==
  /\ pc[r] \in {"reserve_del", "reserve_delpattern", "reserve_delkeys"}
  /\ error' = [error EXCEPT ![r] = CacheError]
  /\ pc' = [pc EXCEPT ![r] = "reserve_rollback"]
  /\ UNCHANGED <<storeVars, caller, body, localVars, response, calls, history>>
  /\ UNCHANGED <<cache, sideVars>>

\* COMMIT; return { success: true, ... }; a create-order request then enters
\* processPayment and suspends at its timer
ReserveCommit(r) ==
  /\ pc[r] = "reserve_commit"
  /\ CommitStock(r)
  /\ pc' = [pc EXCEPT ![r] =
       IF caller[r] = "createOrder" THEN "process_payment" ELSE "returned"]
  /\ calls' = [calls EXCEPT ![r].processPayment =
                                 IF caller[r] = "createOrder" THEN @ + 1 ELSE @,
                               ![r].release = @ + 1]
  /\ reservation' = [reservation EXCEPT ![r] = "ok"]
  /\ UNCHANGED <<orderVars, caller, body, localVars, error, response,
                 paymentOutcome, stock0>>
  /\ UNCHANGED <<cache, sideVars>>

\* the catch block of reserveInventory sending COMMIT
ReserveRollbackCommits(r) ==
  /\ pc[r] = "reserve_rollback"
  /\ CommitStock(r)
  /\ pc' = [pc EXCEPT ![r] =
       IF caller[r] = "createOrder" THEN "mark_failed" ELSE "threw"]
  /\ reservation' = [reservation EXCEPT ![r] = "failed"]
  /\ calls' = [calls EXCEPT ![r].release = @ + 1]
  /\ UNCHANGED <<orderVars, caller, body, localVars, error, response,
                 paymentOutcome, stock0>>
  /\ UNCHANGED <<cache, sideVars>>

\* ROLLBACK; throw error; a create-order request then runs its catch block and
\* suspends at the UPDATE that marks the order failed
ReserveRollback(r) ==
  /\ pc[r] = "reserve_rollback"
  /\ RollbackStock(r)
  /\ pc' = [pc EXCEPT ![r] =
       IF caller[r] = "createOrder" THEN "mark_failed" ELSE "threw"]
  /\ reservation' = [reservation EXCEPT ![r] = "failed"]
  /\ calls' = [calls EXCEPT ![r].release = @ + 1]
  /\ UNCHANGED <<orderVars, caller, body, localVars, error, response,
                 paymentOutcome, stock0>>
  /\ UNCHANGED <<cache, sideVars>>

\* The store ends a cycle of transactions waiting for each other's row locks by
\* failing the UPDATE of one of them (deadlock detected).
DeadlockAbort(r) ==
  /\ pc[r] \in {"reserve_update", "release_update"}
  /\ Deadlocked(r)
  /\ error' = [error EXCEPT ![r] = DeadlockError]
  /\ pc' = [pc EXCEPT ![r] =
       IF pc[r] = "reserve_update" THEN "reserve_rollback" ELSE "release_rollback"]
  /\ UNCHANGED <<storeVars, caller, body, localVars, response, calls, history>>
  /\ UNCHANGED <<cache, sideVars>>

\* --------------------------------------------------- POST /api/orders, 5 - 7
setOrder(id, st, pay) ==
  [orders EXCEPT ![id].status = st, ![id].payment_status = pay]

\* the catch of step 5 releasing the inventory before it rethrows
MarkFailedReleases(r) ==
  /\ pc[r] = "mark_failed"
  /\ orders' = setOrder(orderId[r], "failed", orders[orderId[r]].payment_status)
  /\ pc' = [pc EXCEPT ![r] = "release_begin"]
  /\ UNCHANGED <<productVars, order_items, orders_id_seq, txOrder, txItems, caller,
                 body, localVars, error, response, calls, history>>
  /\ UNCHANGED <<cache, sideVars>>

\* the catch of step 5 trying the reservation again
MarkFailedRetries(r) ==
  /\ pc[r] = "mark_failed"
  /\ orders' = setOrder(orderId[r], "failed", orders[orderId[r]].payment_status)
  /\ pc' = [pc EXCEPT ![r] = "reserve_begin"]
  /\ UNCHANGED <<productVars, order_items, orders_id_seq, txOrder, txItems, caller,
                 body, localVars, error, response, calls, history>>
  /\ UNCHANGED <<cache, sideVars>>

\* the catch of step 5 without its `throw error`: step 6 follows
MarkFailedNoThrow(r) ==
  /\ pc[r] = "mark_failed"
  /\ orders' = setOrder(orderId[r], "failed", orders[orderId[r]].payment_status)
  /\ pc' = [pc EXCEPT ![r] = "process_payment"]
  /\ calls' = [calls EXCEPT ![r].processPayment = @ + 1]
  /\ UNCHANGED <<productVars, order_items, orders_id_seq, txOrder, txItems, caller,
                 body, localVars, error, response, history>>
  /\ UNCHANGED <<cache, sideVars>>

\* catch of step 5: UPDATE orders SET status = 'failed' WHERE id = $2; throw error
MarkFailed(r) ==
  /\ pc[r] = "mark_failed"
  /\ orders' = setOrder(orderId[r], "failed", orders[orderId[r]].payment_status)
  /\ Throw(r, error[r])
  /\ UNCHANGED <<productVars, order_items, orders_id_seq, txOrder, txItems, caller,
                 body, localVars, calls, history>>
  /\ UNCHANGED <<cache, sideVars>>

\* processPayment: the timer fires and Math.random() >= 0.1, a result is returned
PaymentSucceeds(r) ==
  /\ pc[r] = "process_payment"
  /\ paymentResult' = [paymentResult EXCEPT ![r] = "success"]
  /\ paymentOutcome' = [paymentOutcome EXCEPT ![r] = "success"]
  /\ pc' = [pc EXCEPT ![r] = "confirm_order"]
  /\ UNCHANGED <<storeVars, caller, body, idx, totalAmount, productDetails,
                 inventoryCheck, orderId, error, response, calls, reservation, held,
                 stock0>>
  /\ UNCHANGED <<cache, sideVars>>

\* step 6 with a catch that swallows the payment error: the order is confirmed
PaymentFailsSwallowed(r) ==
  /\ pc[r] = "process_payment"
  /\ error' = [error EXCEPT ![r] = PaymentError]
  /\ paymentOutcome' = [paymentOutcome EXCEPT ![r] = "failed"]
  /\ pc' = [pc EXCEPT ![r] = "confirm_order"]
  /\ UNCHANGED <<storeVars, caller, body, localVars, response, calls, reservation,
                 held, stock0>>
  /\ UNCHANGED <<cache, sideVars>>

\* processPayment: the timer fires and Math.random() < 0.1, PAYMENT_FAILED is
\* thrown; the catch of step 6 enters releaseInventory
PaymentFails(r) ==
  /\ pc[r] = "process_payment"
  /\ error' = [error EXCEPT ![r] = PaymentError]
  /\ paymentOutcome' = [paymentOutcome EXCEPT ![r] = "failed"]
  /\ pc' = [pc EXCEPT ![r] = "release_begin"]
  /\ UNCHANGED <<storeVars, caller, body, localVars, response, calls, reservation,
                 held, stock0>>
  /\ UNCHANGED <<cache, sideVars>>

\* the UPDATE of step 6 with its first two parameters exchanged
ConfirmOrderSwapped(r) ==
  /\ pc[r] = "confirm_order"
  /\ orders' = setOrder(orderId[r], "completed", "confirmed")
  /\ pc' = [pc EXCEPT ![r] = "final_select"]
  /\ UNCHANGED <<productVars, order_items, orders_id_seq, txOrder, txItems, caller,
                 body, localVars, error, response, calls, history>>
  /\ UNCHANGED <<cache, sideVars>>

\* UPDATE orders SET payment_status = 'completed', status = 'confirmed' WHERE id = $3
ConfirmOrder(r) ==
  /\ pc[r] = "confirm_order"
  /\ orders' = setOrder(orderId[r], "confirmed", "completed")
  /\ pc' = [pc EXCEPT ![r] = "final_select"]
  /\ UNCHANGED <<productVars, order_items, orders_id_seq, txOrder, txItems, caller,
                 body, localVars, error, response, calls, history>>
  /\ UNCHANGED <<cache, sideVars>>

\* Step 7: SELECT o.*, ... ; res.status(201).json(...)
FinalSelect(r) ==
  /\ pc[r] = "final_select"
  /\ response' = [response EXCEPT ![r] =
       [status |-> 201, code |-> "", message |-> "Order created successfully"]]
  /\ pc' = [pc EXCEPT ![r] = "done"]
  /\ UNCHANGED <<storeVars, caller, body, localVars, error, calls, history>>
  /\ UNCHANGED <<cache, sideVars>>

\* --------------------------------------------------------- releaseInventory
\* getClient(); BEGIN
ReleaseBegin(r) ==
  /\ pc[r] = "release_begin"
  /\ pc' = [pc EXCEPT ![r] = "release_update"]
  /\ idx' = [idx EXCEPT ![r] = 1]
  /\ calls' = [calls EXCEPT ![r].releaseInventory = @ + 1, ![r].getClient = @ + 1]
  /\ UNCHANGED <<storeVars, caller, body, totalAmount, productDetails,
                 inventoryCheck, orderId, paymentResult, error, response, history>>
  /\ UNCHANGED <<cache, sideVars>>

\* the UPDATE of releaseInventory with - in place of +
ReleaseUpdateSubtracts(r) ==
  /\ pc[r] = "release_update"
  /\ WaitsFor(r) = NoReq
  /\ LET item == body[r].items[idx[r]]
         p == item.productId
     IN IF p \in Products
          THEN /\ uncommitted' = [uncommitted EXCEPT ![p] = Visible(r, p) - item.quantity]
               /\ rowLock' = [rowLock EXCEPT ![p] = r]
          ELSE UNCHANGED <<uncommitted, rowLock>>
  /\ pc' = [pc EXCEPT ![r] = "release_del"]
  /\ UNCHANGED <<price, stock_quantity, orderVars, caller, body, localVars, error,
                 response, calls, history>>
  /\ UNCHANGED <<cache, sideVars>>

\* UPDATE products SET stock_quantity = stock_quantity + $1 WHERE id = $2
ReleaseUpdate(r) ==
  /\ pc[r] = "release_update"
  /\ WaitsFor(r) = NoReq
  /\ LET item == body[r].items[idx[r]]
         p == item.productId
     IN IF p \in Products
          THEN /\ uncommitted' = [uncommitted EXCEPT ![p] = Visible(r, p) + item.quantity]
               /\ rowLock' = [rowLock EXCEPT ![p] = r]
          ELSE UNCHANGED <<uncommitted, rowLock>>
  /\ pc' = [pc EXCEPT ![r] = "release_del"]
  /\ UNCHANGED <<price, stock_quantity, orderVars, caller, body, localVars, error,
                 response, calls, history>>
  /\ UNCHANGED <<cache, sideVars>>

\* await cache.del(`product:${item.productId}`)
ReleaseCacheDel(r) ==
  /\ pc[r] = "release_del"
  /\ cache' = cacheDel(body[r].items[idx[r]].productId)
  /\ pc' = [pc EXCEPT ![r] = "release_delpattern"]
  /\ UNCHANGED <<storeVars, caller, body, localVars, error, response, calls,
                 history>>
  /\ UNCHANGED sideVars

\* await cache.deletePattern('products:*'); next item, or COMMIT
ReleaseCacheDeletePattern(r) ==
  /\ pc[r] = "release_delpattern"
  /\ IF cache.products # <<>>
       THEN /\ pc' = [pc EXCEPT ![r] = "release_delkeys"]
            /\ UNCHANGED idx
       ELSE AfterInvalidate(r, "release_commit", "release_update")
  /\ UNCHANGED cache
  /\ UNCHANGED <<storeVars, caller, body, totalAmount, productDetails,
                 inventoryCheck, orderId, paymentResult, error, response, calls,
                 history>>
  /\ UNCHANGED sideVars

\* a cache call of releaseInventory rejects
ReleaseCacheFails(r) ==
  /\ pc[r] \in {"release_del", "release_delpattern", "release_delkeys"}
  /\ error' = [error EXCEPT ![r] = CacheError]
  /\ pc' = [pc EXCEPT ![r] = "release_rollback"]
  /\ UNCHANGED <<storeVars, caller, body, localVars, response, calls, history>>
  /\ UNCHANGED <<cache, sideVars>>

\* COMMIT; return; the catch of step 6 goes on to mark the order cancelled
ReleaseCommit(r) ==
  /\ pc[r] = "release_commit"
  /\ CommitStock(r)
  /\ pc' = [pc EXCEPT ![r] = "mark_cancelled"]
  /\ calls' = [calls EXCEPT ![r].release = @ + 1]
  /\ UNCHANGED <<orderVars, caller, body, localVars, error, response,
                 paymentOutcome, reservation, stock0>>
  /\ UNCHANGED <<cache, sideVars>>

\* ROLLBACK; throw error: the rejection leaves the catch of step 6 and the
\* handler
ReleaseRollback(r) ==
  /\ pc[r] = "release_rollback"
  /\ RollbackStock(r)
  /\ Throw(r, error[r])
  /\ calls' = [calls EXCEPT ![r].release = @ + 1]
  /\ UNCHANGED <<orderVars, caller, body, localVars, paymentOutcome,
                 reservation, stock0>>
  /\ UNCHANGED <<cache, sideVars>>

\* the UPDATE of the catch of step 6 setting the status only
MarkCancelledStatusOnly(r) ==
  /\ pc[r] = "mark_cancelled"
  /\ orders' = setOrder(orderId[r], "cancelled", orders[orderId[r]].payment_status)
  /\ Throw(r, error[r])
  /\ UNCHANGED <<productVars, order_items, orders_id_seq, txOrder, txItems, caller,
                 body, localVars, calls, history>>
  /\ UNCHANGED <<cache, sideVars>>

\* UPDATE orders SET payment_status = 'failed', status = 'cancelled' WHERE id = $3;
\* throw error
MarkCancelled(r) ==
  /\ pc[r] = "mark_cancelled"
  /\ orders' = setOrder(orderId[r], "cancelled", "failed")
  /\ Throw(r, error[r])
  /\ UNCHANGED <<productVars, order_items, orders_id_seq, txOrder, txItems, caller,
                 body, localVars, calls, history>>
  /\ UNCHANGED <<cache, sideVars>>

\* ------------------------------------------------------------ specification
CreateOrder(r) ==
  \/ Receive(r)
  \/ ValidateUser(r)
  \/ LookupProduct(r)
  \/ CheckInventory(r)
  \/ BeginOrder(r)
  \/ InsertOrder(r)
  \/ InsertItem(r)
  \/ InsertFails(r)
  \/ CommitOrder(r)
  \/ RollbackOrder(r)
  \/ MarkFailed(r)
  \/ PaymentSucceeds(r)
  \/ PaymentFails(r)
  \/ ConfirmOrder(r)
  \/ FinalSelect(r)
  \/ MarkCancelled(r)

reserveInventory(r) ==
  \/ ReserveBegin(r)
  \/ ReserveUpdate(r)
  \/ ReserveCacheDel(r)
  \/ ReserveCacheDeletePattern(r)
  \/ ReserveCommit(r)
  \/ ReserveRollback(r)

releaseInventory(r) ==
  \/ ReleaseBegin(r)
  \/ ReleaseUpdate(r)
  \/ ReleaseCacheDel(r)
  \/ ReleaseCacheDeletePattern(r)
  \/ ReleaseCommit(r)
  \/ ReleaseRollback(r)

Next ==
  \E r \in Procs :
    \/ CreateOrder(r)
    \/ reserveInventory(r)
    \/ releaseInventory(r)
    \/ ReserveCacheFails(r)
    \/ ReleaseCacheFails(r)
    \/ DeadlockAbort(r)

Spec == Init /\ [][Next]_vars


\* ------------------------------------------------- cache.deletePattern
\* deletePattern found keys: await redisClient.del(keys), then the next item
\* or COMMIT
ReserveCacheDelKeys(r) ==
  /\ pc[r] = "reserve_delkeys"
  /\ cache' = [cache EXCEPT !.products = <<>>]
  /\ AfterInvalidate(r, "reserve_commit", "reserve_update")
  /\ UNCHANGED <<storeVars, caller, body, totalAmount, productDetails,
                 inventoryCheck, orderId, paymentResult, error, response, calls,
                 history, sideVars>>

ReleaseCacheDelKeys(r) ==
  /\ pc[r] = "release_delkeys"
  /\ cache' = [cache EXCEPT !.products = <<>>]
  /\ AfterInvalidate(r, "release_commit", "release_update")
  /\ UNCHANGED <<storeVars, caller, body, totalAmount, productDetails,
                 inventoryCheck, orderId, paymentResult, error, response, calls,
                 history, sideVars>>

deletePattern(r) == ReserveCacheDelKeys(r) \/ ReleaseCacheDelKeys(r)

\* redisClient.setEx(key, ttlSeconds, ...): the key is gone when its time is up
Expire ==
  /\ \/ \E p \in Products :
          /\ cache.product[p] # <<>>
          /\ cache' = [cache EXCEPT !.product[p] = <<>>]
     \/ /\ cache.products # <<>>
        /\ cache' = [cache EXCEPT !.products = <<>>]
     \/ \E id \in DOMAIN cache.order :
          cache' = [cache EXCEPT !.order =
                      [k \in DOMAIN cache.order \ {id} |-> cache.order[k]]]
  /\ UNCHANGED <<storeVars, pc, caller, body, localVars, error, response, calls,
                 history, sideVars>>

\* ------------------------------------------------------ GET /api/orders/:id
Ok == [status |-> 200, code |-> "", message |-> "OK"]
OrderTargets == {1, MissingId}

\* what the handler assembles for one order: the row and its items
orderContent(id) == [row |-> orders[id], items |-> order_items[id]]

\* the request arrives with a numeric :id; the handler builds the cache key
\* and suspends at cache.get
GetOrderStart(r) ==
  /\ pc[r] = "idle"
  /\ \E id \in OrderTargets : orderId' = [orderId EXCEPT ![r] = id]
  /\ caller' = [caller EXCEPT ![r] = "getOrder"]
  /\ pc' = [pc EXCEPT ![r] = "order_cache_get"]
  /\ UNCHANGED <<storeVars, body, idx, totalAmount, productDetails, inventoryCheck,
                 paymentResult, error, response, calls, history, cache, sideVars>>

\* const cached = await cache.get(cacheKey); if (cached) return res.json(...)
GetOrderCacheGet(r) ==
  /\ pc[r] = "order_cache_get"
  /\ IF orderId[r] \in DOMAIN cache.order
       THEN /\ fetched' = [fetched EXCEPT ![r] =
                 [@ EXCEPT !.cached = TRUE, !.order = <<cache.order[orderId[r]]>>]]
            /\ response' = [response EXCEPT ![r] = Ok]
            /\ pc' = [pc EXCEPT ![r] = "done"]
       ELSE /\ pc' = [pc EXCEPT ![r] = "order_select"]
            /\ UNCHANGED <<fetched, response>>
  /\ UNCHANGED <<storeVars, caller, body, localVars, error, calls, history, cache,
                 redisClient, req, health,
                 scriptVars>>

\* SELECT o.* ... WHERE o.id = $1; no row: NOT_FOUND
GetOrderSelect(r) ==
  /\ pc[r] = "order_select"
  /\ IF orderId[r] \in DOMAIN orders
       THEN /\ fetched' = [fetched EXCEPT ![r].order =
                 <<[row |-> orders[orderId[r]], items |-> <<>>]>>]
            /\ pc' = [pc EXCEPT ![r] = "order_items_select"]
            /\ UNCHANGED <<error, response>>
       ELSE /\ Throw(r, NotFoundError("Order not found"))
            /\ UNCHANGED fetched
  /\ UNCHANGED <<storeVars, caller, body, localVars, calls, history, cache,
                 redisClient, req, health,
                 scriptVars>>

\* SELECT oi.* ... WHERE oi.order_id = $1; order.items = itemsResult.rows
GetOrderItems(r) ==
  /\ pc[r] = "order_items_select"
  /\ fetched' = [fetched EXCEPT ![r].order =
       <<[row |-> @[1].row, items |-> order_items[orderId[r]]]>>]
  /\ pc' = [pc EXCEPT ![r] = "order_cache_set"]
  /\ UNCHANGED <<storeVars, caller, body, localVars, error, response, calls,
                 history, cache, redisClient, req, health,
                 scriptVars>>

\* await cache.set(cacheKey, order, 120); res.json({ order, cached: false })
GetOrderCacheSet(r) ==
  /\ pc[r] = "order_cache_set"
  /\ cache' = [cache EXCEPT !.order =
       [k \in DOMAIN @ \cup {orderId[r]} |->
          IF k = orderId[r] THEN fetched[r].order[1] ELSE @[k]]]
  /\ response' = [response EXCEPT ![r] = Ok]
  /\ pc' = [pc EXCEPT ![r] = "done"]
  /\ UNCHANGED <<storeVars, caller, body, localVars, error, calls, history,
                 sideVars>>

\* redisClient.get / redisClient.setEx rejects: nothing catches it before
\* asyncHandler
GetOrderCacheFails(r) ==
  /\ pc[r] \in {"order_cache_get", "order_cache_set"}
  /\ Throw(r, CacheError)
  /\ UNCHANGED <<storeVars, caller, body, localVars, calls, history, cache,
                 sideVars>>

GetOrder(r) ==
  \/ GetOrderStart(r)
  \/ GetOrderCacheGet(r)
  \/ GetOrderSelect(r)
  \/ GetOrderItems(r)
  \/ GetOrderCacheSet(r)

\* ------------------------------------- GET /api/products, /api/products/:id
\* The read path of the product routes: the key product:<id> for one product,
\* a products:* key for the listing (target 0); the value cached is what the
\* store returned.
ProductTargets == Products \cup {0}
productKeyHit(t) == IF t = 0 THEN cache.products # <<>> ELSE cache.product[t] # <<>>
productKeyValue(t) == IF t = 0 THEN cache.products ELSE cache.product[t]
productRows(t) == IF t = 0 THEN <<stock_quantity>> ELSE <<stock_quantity[t]>>

GetProductStart(r) ==
  /\ pc[r] = "idle"
  /\ \E t \in ProductTargets : fetched' = [fetched EXCEPT ![r].target = t]
  /\ caller' = [caller EXCEPT ![r] = "getProduct"]
  /\ pc' = [pc EXCEPT ![r] = "product_cache_get"]
  /\ UNCHANGED <<storeVars, body, localVars, error, response, calls, history,
                 cache, redisClient, req, health,
                 scriptVars>>

GetProductCacheGet(r) ==
  /\ pc[r] = "product_cache_get"
  /\ IF productKeyHit(fetched[r].target)
       THEN /\ fetched' = [fetched EXCEPT ![r] =
                 [@ EXCEPT !.cached = TRUE, !.stock = productKeyValue(fetched[r].target)]]
            /\ response' = [response EXCEPT ![r] = Ok]
            /\ pc' = [pc EXCEPT ![r] = "done"]
       ELSE /\ pc' = [pc EXCEPT ![r] = "product_select"]
            /\ UNCHANGED <<fetched, response>>
  /\ UNCHANGED <<storeVars, caller, body, localVars, error, calls, history, cache,
                 redisClient, req, health,
                 scriptVars>>

GetProductSelect(r) ==
  /\ pc[r] = "product_select"
  /\ fetched' = [fetched EXCEPT ![r].stock = productRows(fetched[r].target)]
  /\ pc' = [pc EXCEPT ![r] = "product_cache_set"]
  /\ UNCHANGED <<storeVars, caller, body, localVars, error, response, calls,
                 history, cache, redisClient, req, health,
                 scriptVars>>

GetProductCacheSet(r) ==
  /\ pc[r] = "product_cache_set"
  /\ cache' = IF fetched[r].target = 0
                THEN [cache EXCEPT !.products = fetched[r].stock]
                ELSE [cache EXCEPT !.product[fetched[r].target] = fetched[r].stock]
  /\ response' = [response EXCEPT ![r] = Ok]
  /\ pc' = [pc EXCEPT ![r] = "done"]
  /\ UNCHANGED <<storeVars, caller, body, localVars, error, calls, history,
                 sideVars>>

GetProduct(r) ==
  \/ GetProductStart(r)
  \/ GetProductCacheGet(r)
  \/ GetProductSelect(r)
  \/ GetProductCacheSet(r)

\* ---------------------------------------------- one order and its readers
\* One create-order request (slot 1) while GET requests for orders and
\* products arrive in the other slots; cache keys expire and cache calls may
\* reject.
Writer == 1

InitCache ==
  /\ price = SeedPrice
  /\ stock_quantity = [p \in Products |-> MaxStock]
  /\ InitStore
  /\ InitLocals(1..(1 + MaxReaders), "idle", "createOrder")
  /\ body = [r \in 1..(1 + MaxReaders) |-> NoBody]

NextCache ==
  \/ \E r \in Procs :
       \/ r = Writer /\ CreateOrder(r)
       \/ reserveInventory(r)
       \/ releaseInventory(r)
       \/ deletePattern(r)
       \/ ReserveCacheFails(r)
       \/ ReleaseCacheFails(r)
       \/ r # Writer /\ GetOrder(r)
       \/ r # Writer /\ GetProduct(r)
       \/ GetOrderCacheFails(r)
  \/ Expire

SpecCache == InitCache /\ [][NextCache]_vars

\* ------------------------------------------------------- error responses
\* A handler's promise rejects with an Error of any shape: asyncHandler passes
\* it to errorHandler.
ErrorCodes == {"", "NOT_FOUND", "VALIDATION_ERROR", "INSUFFICIENT_INVENTORY",
               "PAYMENT_FAILED", "40P01", "ECONNREFUSED"}
ErrorStatusCodes == {0, 400, 404, 409, 413, 422, 500, 503}
ErrorSamples ==
  [message : {"Validation failed", "connect ECONNREFUSED"}, code : ErrorCodes,
   statusCode : ErrorStatusCodes, details : {<<>>}]

Rejects(r) ==
  /\ pc[r] = "rejected"
  /\ Throw(r, error[r])
  /\ UNCHANGED <<storeVars, caller, body, localVars, calls, history, cache,
                 sideVars>>

InitErrors ==
  /\ price = SeedPrice
  /\ stock_quantity = [p \in Products |-> MaxStock]
  /\ InitStore
  /\ txOrder = <<<<>>>> /\ txItems = <<<<>>>>
  /\ pc = <<"rejected">> /\ caller = <<"any">> /\ body = <<NoBody>>
  /\ idx = <<0>> /\ totalAmount = <<<<>>>> /\ productDetails = <<<<>>>>
  /\ inventoryCheck = <<<<>>>> /\ orderId = <<NoOrder>>
  /\ paymentResult = <<"none">>
  /\ error \in [{1} -> ErrorSamples]
  /\ response = <<NoResponse>> /\ paymentOutcome = <<"none">>
  /\ calls = <<NoCalls>> /\ reservation = <<"none">>
  /\ held = <<[p \in Products |-> 0]>> /\ stock0 = stock_quantity
  /\ req = <<NoRequest>> /\ fetched = <<NoFetch>> /\ health = <<NoHealth>>

NextErrors == \E r \in Procs : Rejects(r)

SpecErrors == InitErrors /\ [][NextErrors]_vars

\* ------------------------------------------------- POST /api/orders, input
\* express-validator: isInt, isInt({ min }), isArray({ min: 1 }), isIn
isInt(v) == v.kind = "int"
\* isInt({ min }) without its option
isIntNoMin(v, min) == v.kind = "int"
isIntMin(v, min) == v.kind = "int" /\ v.int >= min
isArrayMin1(v) == v.kind = "array" /\ Len(v.elems) >= 1
isIn(v, allowed) == v.kind = "string" /\ v.str \in allowed

\* the fields for which the chain of the route records an error; the wildcard
\* items.* selects the elements of an array and nothing otherwise
validationErrors(b) ==
  {f \in {"userId", "items", "items.*.productId", "items.*.quantity",
          "paymentMethod"} :
     \/ f = "userId" /\ ~isInt(b.userId)
     \/ f = "items" /\ ~isArrayMin1(b.items)
     \/ /\ f = "items.*.productId"
        /\ \E i \in 1..Len(b.items.elems) : ~isInt(b.items.elems[i].productId)
     \/ /\ f = "items.*.quantity"
        /\ \E i \in 1..Len(b.items.elems) : ~isIntMin(b.items.elems[i].quantity, 1)
     \/ f = "paymentMethod" /\ ~isIn(b.paymentMethod, PaymentMethods)}

\* const { userId, items, paymentMethod } = req.body
destructure(b) ==
  [userId |-> b.userId.int,
   items |-> [i \in 1..Len(b.items.elems) |->
                [productId |-> b.items.elems[i].productId.int,
                 quantity |-> b.items.elems[i].quantity.int]],
   paymentMethod |-> b.paymentMethod.str]

ValidationFailed == [status |-> 400, code |-> "VALIDATION_ERROR",
                     message |-> "Validation failed"]

GoodItem == [productId |-> JInt(1), quantity |-> JInt(1)]
RawItems ==
  {JArray(<<GoodItem>>), JArray(<<>>), JString("none"),
   JArray(<<[productId |-> JInt(1), quantity |-> JInt(0)]>>),
   JArray(<<[productId |-> JString("laptop"), quantity |-> JInt(1)]>>),
   JArray(<<GoodItem, [productId |-> JInt(2), quantity |-> JFloat]>>)}
RawBodies ==
  [userId : {JInt(1), JString("john"), Absent}, items : RawItems,
   paymentMethod : {JString("credit_card"), JString("bitcoin"), Absent}]

\* The request arrives: the validators run, handleValidationErrors answers 400
\* itself when they recorded an error, and calls next() otherwise; the handler
\* then runs up to its first await.
ReceiveRequest(r) ==
  /\ pc[r] = "idle"
  /\ \E b \in RawBodies :
       /\ req' = [req EXCEPT ![r] = b]
       /\ IF validationErrors(b) # {}
            THEN /\ response' = [response EXCEPT ![r] = ValidationFailed]
                 /\ pc' = [pc EXCEPT ![r] = "done"]
                 /\ UNCHANGED body
            ELSE /\ body' = [body EXCEPT ![r] = destructure(b)]
                 /\ pc' = [pc EXCEPT ![r] = "validate_user"]
                 /\ UNCHANGED response
  /\ UNCHANGED <<storeVars, caller, localVars, error, calls, history, cache,
                 redisClient, fetched, health,
                 scriptVars>>

InitValidate ==
  /\ price = SeedPrice
  /\ stock_quantity \in [Products -> 0..MaxStock]
  /\ InitStore
  /\ InitLocals(1..MaxReqs, "idle", "createOrder")
  /\ body = [r \in 1..MaxReqs |-> NoBody]

NextValidate ==
  \E r \in Procs :
    \/ ReceiveRequest(r)
    \/ ValidateUser(r)
    \/ LookupProduct(r)
    \/ CheckInventory(r)
    \/ BeginOrder(r)
    \/ InsertOrder(r)
    \/ InsertItem(r)
    \/ CommitOrder(r)
    \/ reserveInventory(r)
    \/ MarkFailed(r)
    \/ PaymentSucceeds(r)
    \/ PaymentFails(r)
    \/ ConfirmOrder(r)
    \/ FinalSelect(r)
    \/ releaseInventory(r)
    \/ ReleaseCacheFails(r)
    \/ MarkCancelled(r)

SpecValidate == InitValidate /\ [][NextValidate]_vars

\* --------------------------------------------------------------- GET /health
\* const isHealthy = dbHealth.status === 'healthy' && cacheHealth.status === 'healthy'
isHealthy(dbHealth, cacheHealth) == dbHealth = "healthy" /\ cacheHealth = "healthy"

\* Promise.all([checkDbHealth(), checkCacheHealth()]): both checks start.  The
\* store check suspends at its query; the cache check returns unhealthy at
\* once when there is no client or it is not open, and suspends at ping
\* otherwise.
HealthStart(r) ==
  /\ pc[r] = "idle"
  /\ caller' = [caller EXCEPT ![r] = "health"]
  /\ health' = [health EXCEPT ![r] =
       [database |-> "pending",
        cache |-> IF redisClient = "open" THEN "pending" ELSE "unhealthy",
        client |-> redisClient]]
  /\ pc' = [pc EXCEPT ![r] = "health_wait"]
  /\ UNCHANGED <<storeVars, body, localVars, error, response, calls, history, cache,
                 redisClient, req, fetched,
                 scriptVars>>

\* SELECT NOW() answers: { status: 'healthy', ... }
DbHealthAnswers(r) ==
  /\ pc[r] = "health_wait" /\ health[r].database = "pending"
  /\ health' = [health EXCEPT ![r].database = "healthy"]
  /\ UNCHANGED <<storeVars, pc, caller, body, localVars, error, response, calls,
                 history, cache, redisClient, req, fetched,
                 scriptVars>>

\* the query rejects: the catch returns { status: 'unhealthy', ... }
DbHealthThrows(r) ==
  /\ pc[r] = "health_wait" /\ health[r].database = "pending"
  /\ health' = [health EXCEPT ![r].database = "unhealthy"]
  /\ UNCHANGED <<storeVars, pc, caller, body, localVars, error, response, calls,
                 history, cache, redisClient, req, fetched,
                 scriptVars>>

\* redisClient.ping() answers
PingAnswers(r) ==
  /\ pc[r] = "health_wait" /\ health[r].cache = "pending"
  /\ redisClient = "open"
  /\ health' = [health EXCEPT ![r].cache = "healthy"]
  /\ UNCHANGED <<storeVars, pc, caller, body, localVars, error, response, calls,
                 history, cache, redisClient, req, fetched,
                 scriptVars>>

\* checkHealth of the cache without its try / catch
PingThrowsUncaught(r) ==
  /\ pc[r] = "health_wait" /\ health[r].cache = "pending"
  /\ Throw(r, CacheError)
  /\ UNCHANGED <<storeVars, caller, body, localVars, calls, history, cache,
                 sideVars>>

\* redisClient.ping() rejects: the catch returns { status: 'unhealthy', ... }
PingThrows(r) ==
  /\ pc[r] = "health_wait" /\ health[r].cache = "pending"
  /\ health' = [health EXCEPT ![r].cache = "unhealthy"]
  /\ UNCHANGED <<storeVars, pc, caller, body, localVars, error, response, calls,
                 history, cache, redisClient, req, fetched,
                 scriptVars>>

\* both checks resolved: res.status(isHealthy ? 200 : 503).json(...)
HealthRespond(r) ==
  /\ pc[r] = "health_wait"
  /\ health[r].database # "pending" /\ health[r].cache # "pending"
  /\ response' = [response EXCEPT ![r] =
       IF isHealthy(health[r].database, health[r].cache)
         THEN [status |-> 200, code |-> "", message |-> "healthy"]
         ELSE [status |-> 503, code |-> "", message |-> "unhealthy"]]
  /\ pc' = [pc EXCEPT ![r] = "done"]
  /\ UNCHANGED <<storeVars, caller, body, localVars, error, calls, history, cache,
                 sideVars>>

\* cache.js close(): redisClient = null, the state before initializeRedis too
CloseRedis ==
  /\ redisClient # "null"
  /\ redisClient' = "null"
  /\ UNCHANGED <<storeVars, pc, caller, body, localVars, error, response, calls,
                 history, cache, req, fetched, health,
                 scriptVars>>

\* initializeRedis(): createClient, connect
InitializeRedis ==
  /\ redisClient = "null"
  /\ redisClient' = "open"
  /\ UNCHANGED <<storeVars, pc, caller, body, localVars, error, response, calls,
                 history, cache, req, fetched, health,
                 scriptVars>>

\* the connection drops (isOpen is false) or comes back
ConnectionChanges ==
  /\ redisClient # "null"
  /\ redisClient' = IF redisClient = "open" THEN "closed" ELSE "open"
  /\ UNCHANGED <<storeVars, pc, caller, body, localVars, error, response, calls,
                 history, cache, req, fetched, health,
                 scriptVars>>

InitHealth ==
  /\ price = SeedPrice
  /\ stock_quantity = [p \in Products |-> MaxStock]
  /\ InitStore
  /\ InitLocals(1..MaxReqs, "idle", "createOrder")
  /\ body = [r \in 1..MaxReqs |-> NoBody]

NextHealth ==
  \/ \E r \in Procs :
       \/ HealthStart(r)
       \/ DbHealthAnswers(r)
       \/ DbHealthThrows(r)
       \/ PingAnswers(r)
       \/ PingThrows(r)
       \/ HealthRespond(r)
  \/ CloseRedis
  \/ InitializeRedis
  \/ ConnectionChanges

SpecHealth == InitHealth /\ [][NextHealth]_vars

\* ------------------------------------------------------- store call failures
\* Any call of the store may reject: pool.query, pool.connect, and the
\* statements sent on a client.  An INSERT that rejects is InsertFails.

\* a pool.query of the handler outside its try blocks rejects: the SELECTs of
\* steps 1 - 3 and 7, and the UPDATEs inside the catch blocks of steps 5 and 6
QueryFails(r) ==
  /\ pc[r] \in {"validate_user", "lookup_product", "check_inventory", "mark_failed",
                "mark_cancelled", "final_select"}
  /\ Throw(r, StoreError)
  /\ UNCHANGED <<storeVars, caller, body, localVars, calls, history, cache,
                 sideVars>>

\* the UPDATE to confirmed rejects inside the try of step 6: its catch enters
\* releaseInventory
ConfirmFails(r) ==
  /\ pc[r] = "confirm_order"
  /\ error' = [error EXCEPT ![r] = StoreError]
  /\ pc' = [pc EXCEPT ![r] = "release_begin"]
  /\ UNCHANGED <<storeVars, caller, body, localVars, response, calls, history,
                 cache, sideVars>>

\* getClient() rejects (pool.connect times out): no client is checked out and
\* no try block has been entered
GetClientFails(r) ==
  /\ \/ /\ pc[r] = "begin_order"
        /\ Throw(r, StoreError)
        /\ UNCHANGED <<calls, reservation>>
     \/ /\ pc[r] = "reserve_begin"
        /\ error' = [error EXCEPT ![r] = StoreError]
        /\ pc' = [pc EXCEPT ![r] =
             IF caller[r] = "createOrder" THEN "mark_failed" ELSE "threw"]
        /\ calls' = [calls EXCEPT ![r].reserveInventory = @ + 1]
        /\ reservation' = [reservation EXCEPT ![r] = "failed"]
        /\ UNCHANGED response
     \/ /\ pc[r] = "release_begin"
        /\ Throw(r, StoreError)
        /\ calls' = [calls EXCEPT ![r].releaseInventory = @ + 1]
        /\ UNCHANGED reservation
  /\ UNCHANGED <<storeVars, caller, body, localVars, paymentOutcome, held, stock0,
                 cache, sideVars>>

\* getClient() answers and BEGIN rejects: the catch block will send ROLLBACK
BeginFails(r) ==
  /\ \/ /\ pc[r] = "begin_order"
        /\ pc' = [pc EXCEPT ![r] = "rollback_order"]
        /\ calls' = [calls EXCEPT ![r].getClient = @ + 1]
     \/ /\ pc[r] = "reserve_begin"
        /\ pc' = [pc EXCEPT ![r] = "reserve_rollback"]
        /\ calls' = [calls EXCEPT ![r].reserveInventory = @ + 1, ![r].getClient = @ + 1]
     \/ /\ pc[r] = "release_begin"
        /\ pc' = [pc EXCEPT ![r] = "release_rollback"]
        /\ calls' = [calls EXCEPT ![r].releaseInventory = @ + 1, ![r].getClient = @ + 1]
  /\ error' = [error EXCEPT ![r] = StoreError]
  /\ UNCHANGED <<storeVars, caller, body, localVars, response, history, cache,
                 sideVars>>

\* an UPDATE or the COMMIT of a transaction rejects and nothing of it is
\* committed: the catch block will send ROLLBACK
StatementFails(r) ==
  /\ pc[r] \in {"commit_order", "reserve_update", "reserve_commit", "release_update",
                "release_commit"}
  /\ error' = [error EXCEPT ![r] = StoreError]
  /\ pc' = [pc EXCEPT ![r] =
       IF pc[r] = "commit_order" THEN "rollback_order"
       ELSE IF pc[r] \in {"reserve_update", "reserve_commit"} THEN "reserve_rollback"
       ELSE "release_rollback"]
  /\ UNCHANGED <<storeVars, caller, body, localVars, response, calls, history,
                 cache, sideVars>>

\* the transaction blocks with client.release() after ROLLBACK in the catch
\* instead of in a finally: a ROLLBACK that rejects skips it
RollbackFailsLeaks(r) ==
  /\ \/ /\ pc[r] = "rollback_order"
        /\ txOrder' = [txOrder EXCEPT ![r] = <<>>]
        /\ txItems' = [txItems EXCEPT ![r] = <<>>]
        /\ Throw(r, StoreError)
        /\ UNCHANGED <<productVars, held, reservation>>
     \/ /\ pc[r] = "reserve_rollback"
        /\ RollbackStock(r)
        /\ error' = [error EXCEPT ![r] = StoreError]
        /\ pc' = [pc EXCEPT ![r] =
             IF caller[r] = "createOrder" THEN "mark_failed" ELSE "threw"]
        /\ reservation' = [reservation EXCEPT ![r] = "failed"]
        /\ UNCHANGED <<txOrder, txItems, response>>
     \/ /\ pc[r] = "release_rollback"
        /\ RollbackStock(r)
        /\ Throw(r, StoreError)
        /\ UNCHANGED <<txOrder, txItems, reservation>>
  /\ UNCHANGED <<orders, order_items, orders_id_seq, caller, body, localVars, calls,
                 paymentOutcome, stock0, cache, sideVars>>

\* ROLLBACK rejects in a catch block: its error is the one thrown, the finally
\* releases the client, and the store ends the transaction of the connection
RollbackFails(r) ==
  /\ \/ /\ pc[r] = "rollback_order"
        /\ txOrder' = [txOrder EXCEPT ![r] = <<>>]
        /\ txItems' = [txItems EXCEPT ![r] = <<>>]
        /\ Throw(r, StoreError)
        /\ UNCHANGED <<productVars, held, reservation>>
     \/ /\ pc[r] = "reserve_rollback"
        /\ RollbackStock(r)
        /\ error' = [error EXCEPT ![r] = StoreError]
        /\ pc' = [pc EXCEPT ![r] =
             IF caller[r] = "createOrder" THEN "mark_failed" ELSE "threw"]
        /\ reservation' = [reservation EXCEPT ![r] = "failed"]
        /\ UNCHANGED <<txOrder, txItems, response>>
     \/ /\ pc[r] = "release_rollback"
        /\ RollbackStock(r)
        /\ Throw(r, StoreError)
        /\ UNCHANGED <<txOrder, txItems, reservation>>
  /\ calls' = [calls EXCEPT ![r].release = @ + 1]
  /\ UNCHANGED <<orders, order_items, orders_id_seq, caller, body, localVars,
                 paymentOutcome, stock0, cache, sideVars>>

InitFaults ==
  /\ price = SeedPrice
  /\ stock_quantity = [p \in Products |-> MaxStock]
  /\ InitStore
  /\ InitLocals(1..MaxReqs, "idle", "createOrder")
  /\ body = [r \in 1..MaxReqs |-> NoBody]

NextFaults ==
  \E r \in Procs :
    \/ CreateOrder(r)
    \/ reserveInventory(r)
    \/ releaseInventory(r)
    \/ ReserveCacheFails(r)
    \/ ReleaseCacheFails(r)
    \/ DeadlockAbort(r)
    \/ QueryFails(r)
    \/ ConfirmFails(r)
    \/ GetClientFails(r)
    \/ BeginFails(r)
    \/ StatementFails(r)
    \/ RollbackFails(r)

SpecFaults == InitFaults /\ [][NextFaults]_vars

\* ------------------------------------------------------ scripts/set-mode.js
\* /^OTEL_MODE=(.*)$/m matches a line that starts with OTEL_MODE=
matchesMode(line) == Len(line) >= 2 /\ line[1] = "OTEL_MODE" /\ line[2] = "="

\* envContent.match(...): the first line that matches, 0 for null
currentModeMatch(f) ==
  IF \E i \in 1..Len(f.lines) : matchesMode(f.lines[i])
    THEN CHOOSE i \in 1..Len(f.lines) :
           /\ matchesMode(f.lines[i])
           /\ \A j \in 1..(i - 1) : ~matchesMode(f.lines[j])
    ELSE 0

\* String.prototype.trim on the tokens of the captured group
RECURSIVE trim(_)
trim(ts) ==
  IF ts = <<>> THEN ts
  ELSE IF ts[1] = " " THEN trim(Tail(ts))
  ELSE IF ts[Len(ts)] = " " THEN trim(SubSeq(ts, 1, Len(ts) - 1))
  ELSE ts

\* currentModeMatch ? currentModeMatch[1].trim() : 'direct'
currentMode(f) ==
  LET i == currentModeMatch(f)
  IN IF i = 0 THEN <<"direct">> ELSE trim(SubSeq(f.lines[i], 3, Len(f.lines[i])))

\* the update that appends the variable without looking for it
setModeAppends(f, m) ==
  [exists |-> TRUE,
   lines |-> (IF f.lines = <<>> THEN <<<<>>>> ELSE f.lines)
               \o <<<<>>, CommentLine, ModeLine(m)>>,
   open |-> FALSE]

\* "Update or add OTEL_MODE": replace the first matching line, or end the
\* content with a newline and append an empty line, the comment and the
\* variable
setMode(f, m) ==
  LET i == currentModeMatch(f)
  IN IF i # 0
       THEN [f EXCEPT !.lines[i] = ModeLine(m)]
       ELSE [exists |-> TRUE,
             lines |-> (IF f.lines = <<>> THEN <<<<>>>> ELSE f.lines)
                         \o <<<<>>, CommentLine, ModeLine(m)>>,
             open |-> FALSE]

EnvLines == {ModeLine("direct"), ModeLine("collector"),
             <<"OTEL_MODE", "=", " ", "collector", " ">>, <<"OTEL_MODE", "=">>,
             <<"#", " ", "OTEL_MODE", "=", "collector">>, <<"PORT", "=", "3001">>,
             <<>>}
EnvFiles ==
  {[exists |-> FALSE, lines |-> <<>>, open |-> FALSE]}
    \cup {f \in [exists : {TRUE},
                 lines : UNION {[1..n -> EnvLines] : n \in 0..MaxEnvLines},
                 open : BOOLEAN] :
            f.open => (f.lines # <<>> /\ f.lines[Len(f.lines)] # <<>>)}
Arguments == {"direct", "collector", "status", "staging", ""}

\* one run of the script with process.argv[2] = arg ("" when there is none)
RunSetMode(arg) ==
  /\ IF arg \notin {"direct", "collector", "status"} \/ ~envFile.exists
       THEN /\ lastRun' = [argv |-> arg, exitCode |-> 1, reported |-> <<>>]
            /\ UNCHANGED envFile
       ELSE IF arg = "status"
         THEN /\ lastRun' = [argv |-> arg, exitCode |-> 0,
                             reported |-> currentMode(envFile)]
              /\ UNCHANGED envFile
         ELSE /\ envFile' = setMode(envFile, arg)
              /\ lastRun' = [argv |-> arg, exitCode |-> 0, reported |-> <<>>]
  /\ UNCHANGED <<storeVars, pc, caller, body, localVars, error, response, calls,
                 history, cache, redisClient, req, fetched, health>>

InitMode ==
  /\ price = SeedPrice
  /\ stock_quantity = [p \in Products |-> MaxStock]
  /\ InitRows
  /\ InitLocals({1}, "idle", "script")
  /\ body = [r \in {1} |-> NoBody]
  /\ envFile \in EnvFiles
  /\ lastRun = NoRun

NextMode == \E arg \in Arguments : RunSetMode(arg)

SpecMode == InitMode /\ [][NextMode]_vars

\* ------------------------------------------- concurrent reservation test
\* n direct calls of reserveInventory, each for `unit` pieces of product 1,
\* against a stock of `stock` pieces; the cache answers every call.
TestBody(unit) ==
  [userId |-> 1, items |-> <<[productId |-> 1, quantity |-> unit]>>,
   paymentMethod |-> "credit_card"]

InitReserve ==
  \E n \in 1..MaxCalls, unit \in 1..MaxUnit, stock \in 0..MaxTestStock :
    /\ price = SeedPrice
    /\ stock_quantity = [p \in Products |-> IF p = 1 THEN stock ELSE 0]
    /\ InitStore
    /\ InitLocals(1..n, "reserve_begin", "test")
    /\ body = [r \in 1..n |-> TestBody(unit)]

NextReserve == \E r \in Procs : reserveInventory(r)

SpecReserve == InitReserve /\ [][NextReserve]_vars

\* ------------------------------------------------ checkInventory, direct
\* One direct call of checkInventory for any item list, items of unknown
\* products included, while a direct call of reserveInventory takes one piece
\* of product 1.
Checker == 1
CheckBodies == [userId : Users, items : ItemLists, paymentMethod : {"credit_card"}]

InitCheck ==
  /\ price = SeedPrice
  /\ stock_quantity \in [Products -> 0..MaxStock]
  /\ InitStore
  /\ InitLocals(1..2, "reserve_begin", "test")
  /\ body \in [1..2 -> CheckBodies]
  /\ body[2] = TestBody(1)

\* checkInventory(items) is entered
CheckStart(r) ==
  /\ r = Checker /\ pc[r] = "reserve_begin"
  /\ caller' = [caller EXCEPT ![r] = "check"]
  /\ idx' = [idx EXCEPT ![r] = 1]
  /\ pc' = [pc EXCEPT ![r] = "check_inventory"]
  /\ UNCHANGED <<storeVars, body, totalAmount, productDetails, inventoryCheck,
                 orderId, paymentResult, error, response, calls, history, cache,
                 sideVars>>

NextCheck ==
  \E r \in Procs :
    \/ CheckStart(r)
    \/ CheckInventory(r)
    \/ r # Checker /\ reserveInventory(r)

SpecCheck == InitCheck /\ [][NextCheck]_vars

\* ------------------------------------------- reservations in any order
\* Direct calls of reserveInventory that run concurrently, each with its own
\* item list over the products, against a stock that covers all of them; the
\* cache answers every call.
OrderingBodies ==
  [userId : Users,
   items : UNION {[1..n -> [productId : Products, quantity : 1..MaxQty]] :
                    n \in 1..MaxItems},
   paymentMethod : {"credit_card"}]

InitOrderings ==
  /\ price = SeedPrice
  /\ stock_quantity = [p \in Products |-> MaxTestStock]
  /\ InitStore
  /\ InitLocals(1..MaxReqs, "reserve_begin", "test")
  /\ body \in [1..MaxReqs -> OrderingBodies]

NextOrderings ==
  \E r \in Procs :
    \/ reserveInventory(r)
    \/ DeadlockAbort(r)

SpecOrderings == InitOrderings /\ [][NextOrderings]_vars

\* ------------------------------------------------------------ pricing runs
\* One request up to the COMMIT of its order, for prices and item lists wider
\* than those of Spec; every product has stock for every item.
PriceSamples == {1, 29, 110, 435, 89999, 129999}
PriceBodies ==
  [userId : Users,
   items : UNION {[1..n -> [productId : Products, quantity : 1..MaxPriceQty]] :
                    n \in 1..MaxPriceItems},
   paymentMethod : {"credit_card"}]

InitTotal ==
  /\ price \in [Products -> PriceSamples]
  /\ stock_quantity = [p \in Products |-> MaxPriceQty]
  /\ InitStore
  /\ InitLocals({1}, "idle", "createOrder")
  /\ body = [r \in {1} |-> NoBody]

NextTotal ==
  \E r \in Procs :
    \/ ReceiveFrom(r, PriceBodies)
    \/ ValidateUser(r)
    \/ LookupProduct(r)
    \/ CheckInventory(r)
    \/ BeginOrder(r)
    \/ InsertOrder(r)
    \/ InsertItem(r)
    \/ CommitOrder(r)

SpecTotal == InitTotal /\ [][NextTotal]_vars

\* ------------------------------------------------------------------ claims
HoldsNothing(r) == \A p \in Products : held[r][p] = 0 /\ rowLock[p] # r
Names(r, p) == \E i \in 1..Len(body[r].items) : body[r].items[i].productId = p

\* C1: in every reachable state, under any interleaving of concurrent
\* create-order requests, every product's stock_quantity is >= 0 (the committed
\* value and the value an open transaction has written).
StockNeverNegative ==
  \A p \in Products :
    /\ stock_quantity[p] >= 0
    /\ rowLock[p] # NoReq => uncommitted[p] >= 0

\* Two requests raced for the last piece of a product: both passed the
\* availability check, one reserved it, the other met the floor.
StockNeverNegativeWitness ==
  \E r1, r2 \in Procs : \E p \in Products :
    /\ r1 # r2 /\ Names(r1, p) /\ Names(r2, p)
    /\ reservation[r1] = "ok" /\ held[r1][p] > 0
    /\ reservation[r2] = "failed" /\ error[r2] = ReserveError
    /\ stock_quantity[p] = 0

\* C2: when N reserveInventory calls for the same product, each for the same
\* quantity u, run concurrently against stock s with N*u > s, exactly
\* floor(s/u) of them succeed, the others fail, and the final stock is
\* s - floor(s/u)*u, which is >= 0.
ConcurrentReserveFloor ==
  LET unit == body[1].items[1].quantity
      succeeded == {r \in Procs : pc[r] = "returned"}
      failed == {r \in Procs : pc[r] = "threw"}
  IN (/\ \A r \in Procs : caller[r] = "test" /\ pc[r] \in {"returned", "threw"}
      /\ Cardinality(Procs) * unit > stock0[1])
     => /\ Cardinality(succeeded) = stock0[1] \div unit
        /\ failed = Procs \ succeeded
        /\ stock_quantity[1] = stock0[1] - (stock0[1] \div unit) * unit
        /\ stock_quantity[1] >= 0

\* Three calls for 2 pieces each against 4 or 5 pieces have all ended: two
\* succeeded and one failed.
ConcurrentReserveFloorWitness ==
  /\ Cardinality(Procs) = 3
  /\ \A r \in Procs : caller[r] = "test" /\ pc[r] \in {"returned", "threw"}
  /\ body[1].items[1].quantity = 2
  /\ stock0[1] = 4
  /\ Cardinality({r \in Procs : pc[r] = "returned"}) = 2

\* C3: an order row is created with status pending, and its status only ever
\* changes pending->confirmed, pending->cancelled or pending->failed; once it
\* is confirmed, cancelled or failed it never changes again.
OrderLifecycle ==
  [][\A id \in DOMAIN orders' :
       IF id \in DOMAIN orders
         THEN \/ orders'[id].status = orders[id].status
              \/ /\ orders[id].status = "pending"
                 /\ orders'[id].status \in {"confirmed", "cancelled", "failed"}
         ELSE orders'[id].status = "pending"]_vars

\* One order was confirmed and another one cancelled.
OrderLifecycleWitness ==
  \E a, b \in DOMAIN orders :
    orders[a].status = "confirmed" /\ orders[b].status = "cancelled"

\* C4: whenever the payment step fails for an order whose reservation
\* succeeded, the create-order request ends with every reserved product's
\* stock given back (the order holds none of it), the order's status cancelled
\* and its payment_status failed, and the payment error returned to the caller.
PaymentFailureCompensated ==
  \A r \in Procs :
    (pc[r] = "done" /\ reservation[r] = "ok" /\ paymentOutcome[r] = "failed")
    => /\ HoldsNothing(r)
       /\ orders[orderId[r]].status = "cancelled"
       /\ orders[orderId[r]].payment_status = "failed"
       /\ response[r] = errorHandler(PaymentError)

\* C5: if reserveInventory fails for an order, the order's status is set to
\* failed, processPayment is never invoked for it (its payment_status stays
\* pending) and the reservation error is returned to the caller; processPayment
\* is invoked only after a successful reservation.
ReservationFailureHandled ==
  \A r \in Procs :
    /\ calls[r].processPayment > 0 => reservation[r] = "ok"
    /\ (caller[r] = "createOrder" /\ reservation[r] = "failed")
       => /\ pc[r] \in {"mark_failed", "done"}
          /\ calls[r].processPayment = 0 /\ paymentOutcome[r] = "none"
          /\ orders[orderId[r]].payment_status = "pending"
          /\ error[r] \in {ReserveError, CacheError, DeadlockError}
          /\ pc[r] = "done" => /\ orders[orderId[r]].status = "failed"
                               /\ response[r] = errorHandler(error[r])

\* A request ended after its reservation met the floor.
ReservationFailureHandledWitness ==
  \E r \in Procs :
    /\ pc[r] = "done" /\ reservation[r] = "failed" /\ error[r] = ReserveError
    /\ orders[orderId[r]].status = "failed"

\* C6: a reserveInventory call in which one item cannot be decremented fails
\* and leaves the stock of every product, the products it decremented earlier
\* in the call included, as it was: nothing the call wrote is committed and it
\* keeps no row locked.
ReservationAllOrNothing ==
  \A r \in Procs :
    /\ error[r] = ReserveError => reservation[r] # "ok"
    /\ reservation[r] = "failed" => HoldsNothing(r)

\* A call failed at its second item after it had decremented its first.
ReservationAllOrNothingWitness ==
  \E r \in Procs :
    /\ reservation[r] = "failed" /\ error[r] = ReserveError
    /\ Len(body[r].items) = 2 /\ idx[r] = 2
    /\ HoldsNothing(r)

Insufficient(res) == ~res.found \/ res.available < res.requested

\* C7: if at the availability check any item has stock below its requested
\* quantity, the request fails with code INSUFFICIENT_INVENTORY and status 409,
\* err.details lists exactly the items that are not sufficient, no order row is
\* created and no product's stock changes.
AvailabilityCheckRejects ==
  \A r \in Procs :
    (/\ Len(inventoryCheck[r]) = Len(body[r].items)
     /\ \E i \in 1..Len(inventoryCheck[r]) : Insufficient(inventoryCheck[r][i]))
    => /\ pc[r] = "done"
       /\ response[r].status = 409
       /\ response[r].code = "INSUFFICIENT_INVENTORY"
       /\ error[r].details = SelectSeq(inventoryCheck[r], Insufficient)
       /\ orderId[r] = NoOrder /\ txOrder[r] = <<>> /\ txItems[r] = <<>>
       /\ calls[r] = NoCalls /\ HoldsNothing(r)

\* A request of two items was rejected for one of them.
AvailabilityCheckRejectsWitness ==
  \E r \in Procs :
    /\ response[r].status = 409
    /\ Len(body[r].items) = 2 /\ Len(error[r].details) = 1
    /\ \E i \in 1..2 : inventoryCheck[r][i].available >= inventoryCheck[r][i].requested

UnknownReference(r) ==
  \/ body[r].userId \notin Users
  \/ \E i \in 1..Len(body[r].items) : body[r].items[i].productId \notin Products

\* C8: create-order for a user id that does not exist, or with an item whose
\* product id does not exist, fails with code NOT_FOUND and status 404, and
\* creates no order row, no order item and changes no stock.
UnknownReferencesRejected ==
  \A r \in Procs :
    (caller[r] = "createOrder" /\ pc[r] # "idle" /\ UnknownReference(r))
    => /\ pc[r] \in {"validate_user", "lookup_product", "done"}
       /\ pc[r] = "done" => response[r].status = 404 /\ response[r].code = "NOT_FOUND"
       /\ orderId[r] = NoOrder /\ txOrder[r] = <<>> /\ txItems[r] = <<>>
       /\ calls[r] = NoCalls /\ HoldsNothing(r)

\* A request was rejected for its second item's product, and another one for
\* its user.
UnknownReferencesRejectedWitness ==
  \E r1, r2 \in Procs :
    /\ response[r1].status = 404 /\ body[r1].userId \in Users /\ idx[r1] = 2
    /\ response[r2].status = 404 /\ body[r2].userId \notin Users

\* C9: the order row and its order_item rows are persisted atomically: in
\* every committed state an order row exists if and only if one order_item row
\* exists for each item of its request, and if an insert of the transaction
\* fails none of those rows exist.
OrderRowsAtomic ==
  /\ DOMAIN orders = DOMAIN order_items
  /\ \A id \in DOMAIN orders :
       \E r \in Procs :
         /\ orderId[r] = id
         /\ Len(order_items[id]) = Len(body[r].items)
         /\ \A i \in 1..Len(body[r].items) :
              /\ order_items[id][i].order_id = id
              /\ order_items[id][i].product_id = body[r].items[i].productId
              /\ order_items[id][i].quantity = body[r].items[i].quantity
  /\ \A r \in Procs :
       error[r] = StoreError
       => orderId[r] \notin DOMAIN orders /\ orderId[r] \notin DOMAIN order_items

\* One request's order and both its items are committed; another request's
\* order was inserted, an insert of an item failed and the request has ended.
OrderRowsAtomicWitness ==
  \E r1, r2 \in Procs :
    /\ orderId[r1] \in DOMAIN orders /\ Len(order_items[orderId[r1]]) = 2
    /\ error[r2] = StoreError /\ pc[r2] = "done" /\ orderId[r2] # NoOrder

RECURSIVE SumItems(_, _)
SumItems(rows, n) ==
  IF n = 0 THEN 0 ELSE rows[n].quantity * rows[n].price + SumItems(rows, n - 1)

\* C10: for every order created, the stored total_amount equals the sum over
\* its order items of quantity times the recorded unit price, exactly, in
\* cents.
TotalIsExact ==
  \A id \in DOMAIN orders :
    orders[id].total_amount = SumItems(order_items[id], Len(order_items[id]))

\* An order is stored whose double total is not the double nearest to its exact
\* total: the arithmetic drifted and the column still holds the exact cents.
TotalIsExactWitness ==
  \E r \in Procs :
    /\ orderId[r] \in DOMAIN orders
    /\ Len(order_items[orderId[r]]) = 2
    /\ totalAmount[r] # parseFloat(orders[orderId[r]].total_amount)

RECURSIVE Requested(_, _, _)
Requested(items, p, n) ==
  IF n = 0 THEN 0
  ELSE (IF items[n].productId = p THEN items[n].quantity ELSE 0)
       + Requested(items, p, n - 1)

\* C11: a create-order request responds 201 only if its payment step
\* succeeded; the order row then has status confirmed and payment_status
\* completed, and for each product the order has taken exactly the quantities
\* its items name.
CreatedOnlyWhenPaid ==
  \A r \in Procs :
    response[r].status = 201
    => /\ paymentOutcome[r] = "success" /\ reservation[r] = "ok"
       /\ orders[orderId[r]].status = "confirmed"
       /\ orders[orderId[r]].payment_status = "completed"
       /\ \A p \in Products :
            held[r][p] = Requested(body[r].items, p, Len(body[r].items))

\* A request for two products was answered 201 while another request ran.
CreatedOnlyWhenPaidWitness ==
  \E r1, r2 \in Procs :
    /\ r1 # r2 /\ pc[r2] \notin {"idle", "done"}
    /\ response[r1].status = 201
    /\ held[r1][1] = 1 /\ held[r1][2] = 1

\* C15: whenever a create-order request fails at or after the reservation
\* step, then when the request has ended its order row exists and has status
\* failed or cancelled.
FailureRecordedOnOrder ==
  \A r \in Procs :
    (/\ caller[r] = "createOrder" /\ pc[r] = "done"
     /\ calls[r].reserveInventory > 0 /\ response[r].status # 201)
    => /\ orderId[r] \in DOMAIN orders
       /\ orders[orderId[r]].status \in {"failed", "cancelled"}

\* C16: every create-order failure caused by stock below the requested
\* quantity, found by the availability check or by the conditional decrement
\* of reserveInventory, is answered 409 INSUFFICIENT_INVENTORY and its error
\* carries the list of the offending items.
ShortageReportedAsConflict ==
  \A r \in Procs :
    (/\ caller[r] = "createOrder" /\ pc[r] = "done"
     /\ \/ error[r].code = "INSUFFICIENT_INVENTORY"
        \/ error[r] = ReserveError)
    => /\ response[r].status = 409
       /\ response[r].code = "INSUFFICIENT_INVENTORY"
       /\ error[r].details # <<>>

\* C19: within one create-order request reserveInventory, processPayment and
\* releaseInventory are each entered at most once, and once a step has failed
\* the request only records the failure and compensates: it never re-enters a
\* step and never answers 201.
NoStepRetried ==
  \A r \in Procs :
    /\ calls[r].reserveInventory <= 1
    /\ calls[r].processPayment <= 1
    /\ calls[r].releaseInventory <= 1
    /\ calls[r].releaseInventory = 1 => paymentOutcome[r] = "failed"
    /\ error[r] # NoError
       => /\ response[r].status # 201
          /\ pc[r] \in {"rollback_order", "reserve_rollback", "mark_failed",
                        "release_begin", "release_update", "release_del",
                        "release_delpattern", "release_delkeys", "release_commit",
                        "release_rollback", "mark_cancelled", "threw", "done"}

\* A request ended with its payment refused: each step was entered once.
NoStepRetriedWitness ==
  \E r \in Procs :
    /\ pc[r] = "done" /\ response[r].status = 422
    /\ calls[r].reserveInventory = 1 /\ calls[r].processPayment = 1
    /\ calls[r].releaseInventory = 1

\* C12: once a reserveInventory or releaseInventory that changed a
\* product's stock has committed, no key product:<id> and no products:* key
\* holds that product's stock from before the change: every product entry of
\* the cache shows the committed stock.
ProductCacheFresh ==
  /\ \A p \in Products :
       cache.product[p] # <<>> => cache.product[p][1] = stock_quantity[p]
  /\ cache.products # <<>> => cache.products[1] = stock_quantity

\* C13: whenever GET /orders/:id answers from the cache, the order it returns
\* is the order a read from the store would return at that moment.
OrderCacheHitsFresh ==
  [][\A r \in Procs :
       (~fetched[r].cached /\ fetched'[r].cached /\ caller'[r] = "getOrder")
       => fetched'[r].order = <<orderContent(orderId[r])>>]_vars

\* C14: a rejected cache call never fails a request: no request ends with the
\* cache's error, GET /orders/:id still answers 200, and a reservation or
\* release in which a cache call rejected still commits.
CacheFailureTolerated ==
  \A r \in Procs :
    /\ pc[r] = "done" => error[r] # CacheError
    /\ reservation[r] = "failed" => error[r] # CacheError

KnownCodes == {"NOT_FOUND", "VALIDATION_ERROR", "INSUFFICIENT_INVENTORY",
               "PAYMENT_FAILED", "INTERNAL_ERROR"}
StatusOfCode(c) ==
  IF c = "NOT_FOUND" THEN 404
  ELSE IF c = "VALIDATION_ERROR" THEN 400
  ELSE IF c = "INSUFFICIENT_INVENTORY" THEN 409
  ELSE IF c = "PAYMENT_FAILED" THEN 422
  ELSE 500

\* C17: every error response of errorHandler carries the error's message and
\* a code of {NOT_FOUND, VALIDATION_ERROR, INSUFFICIENT_INVENTORY,
\* PAYMENT_FAILED, INTERNAL_ERROR}, and its HTTP status is the one of that code
\* (404, 400, 409, 422, 500), whatever statusCode or code the error carries.
ErrorResponseByCode ==
  \A r \in Procs :
    (pc[r] = "done" /\ error[r] # NoError)
    => /\ response[r].message = error[r].message
       /\ response[r].code \in KnownCodes
       /\ response[r].status = StatusOfCode(response[r].code)

ViolatesRules(b) ==
  \/ b.userId.kind # "int"
  \/ b.items.kind # "array"
  \/ b.items.elems = <<>>
  \/ \E i \in 1..Len(b.items.elems) :
       \/ b.items.elems[i].productId.kind # "int"
       \/ b.items.elems[i].quantity.kind = "int" /\ b.items.elems[i].quantity.int < 1
  \/ b.paymentMethod.kind # "string"
  \/ b.paymentMethod.str \notin {"credit_card", "debit_card", "paypal"}

\* C18: a POST /orders body that violates the input rules is answered 400
\* VALIDATION_ERROR and the order handler never runs for it: the step that
\* receives it changes no store row, stock value or cache entry, and the
\* request holds no body, order, service call or stock afterwards.
RejectedBeforeHandler ==
  [][\A r \in Procs :
       (req'[r] # NoRequest /\ ViolatesRules(req'[r]))
       => /\ pc'[r] = "done"
          /\ response'[r].status = 400 /\ response'[r].code = "VALIDATION_ERROR"
          /\ body'[r] = NoBody /\ orderId'[r] = NoOrder /\ idx'[r] = 0
          /\ calls'[r] = NoCalls /\ txOrder'[r] = <<>> /\ error'[r] = NoError
          /\ \A p \in Products : held'[r][p] = 0 /\ rowLock'[p] # r
          /\ req[r] = NoRequest => UNCHANGED <<storeVars, cache>>]_vars

\* One request was rejected for an item of quantity 0 while the store held an
\* order of another request, which was answered 201.
RejectedBeforeHandlerWitness ==
  \E r1, r2 \in Procs :
    /\ response[r1].status = 400 /\ pc[r1] = "done"
    /\ req[r1].userId = JInt(1) /\ req[r1].paymentMethod = JString("credit_card")
    /\ req[r1].items = JArray(<<[productId |-> JInt(1), quantity |-> JInt(0)]>>)
    /\ response[r2].status = 201

\* C20: GET /health answers 200 if and only if the store check and the cache
\* check both report healthy and 503 otherwise, also when the call under a
\* check throws or the cache client is null or not open; the checks never
\* throw, so the request never ends with an error.
HealthAggregates ==
  \A r \in Procs :
    (caller[r] = "health" /\ pc[r] = "done")
    => /\ error[r] = NoError
       /\ response[r].status \in {200, 503}
       /\ response[r].status = 200
            <=> (health[r].database = "healthy" /\ health[r].cache = "healthy")
       /\ health[r].client # "open"
            => response[r].status = 503 /\ health[r].cache = "unhealthy"

\* One request was answered 200; another, which found no cache client while
\* the store answered, 503.
HealthAggregatesWitness ==
  \E r1, r2 \in Procs :
    /\ caller[r1] = "health" /\ response[r1].status = 200
    /\ caller[r2] = "health" /\ response[r2].status = 503
    /\ health[r2].client = "null" /\ health[r2].database = "healthy"

\* C21: GET /orders/:id answers 404 NOT_FOUND when no order with that id
\* exists and leaves no entry order:<id> behind; otherwise it answers 200 with
\* the order and its items, with cached true exactly when the answer is the
\* entry order:<id> and false exactly when it was read from the store, which
\* then holds that answer under order:<id>.
OrderReadContract ==
  [][\A r \in Procs :
       (caller'[r] = "getOrder" /\ pc[r] # "done" /\ pc'[r] = "done")
       => IF orderId[r] \notin DOMAIN orders
            THEN /\ response'[r].status = 404 /\ response'[r].code = "NOT_FOUND"
                 /\ orderId[r] \notin DOMAIN cache'.order
            ELSE /\ response'[r] = Ok
                 /\ Len(fetched'[r].order) = 1
                 /\ fetched'[r].order[1].items = order_items[orderId[r]]
                 /\ IF fetched'[r].cached
                      THEN /\ orderId[r] \in DOMAIN cache.order
                           /\ fetched'[r].order[1] = cache.order[orderId[r]]
                           /\ cache' = cache
                      ELSE /\ pc[r] = "order_cache_set"
                           /\ cache'.order[orderId[r]] = fetched'[r].order[1]]_vars

\* C22: a step of checkInventory changes no stock, order or cache state and
\* adds one result for the item it read; when the last item is read the call
\* has one result per item, and its overall flag is true (the caller goes on)
\* if and only if every item's product exists and had stock >= the requested
\* quantity, so an item of an unknown product makes it false.
CheckInventoryReadOnly ==
  [][\A r \in Procs :
       inventoryCheck'[r] # inventoryCheck[r]
       => LET item == body[r].items[idx[r]]
              results == inventoryCheck'[r]
              last == results[Len(results)]
          IN /\ UNCHANGED <<storeVars, cache, held>>
             /\ Len(results) = Len(inventoryCheck[r]) + 1 /\ Len(results) = idx[r]
             /\ last.productId = item.productId /\ last.requested = item.quantity
             /\ last.found <=> item.productId \in Products
             /\ last.found => last.available = stock_quantity[item.productId]
             /\ IF idx[r] < Len(body[r].items)
                  THEN pc'[r] = "check_inventory"
                  ELSE /\ Len(results) = Len(body[r].items)
                       /\ pc'[r] = "begin_order"
                            <=> \A i \in 1..Len(results) :
                                  /\ results[i].found
                                  /\ results[i].available >= results[i].requested
                       /\ pc'[r] # "begin_order"
                            => error'[r].code = "INSUFFICIENT_INVENTORY"]_vars

\* A direct call for a known product with stock and an unknown product has
\* returned: two results, overall not available.
CheckInventoryReadOnlyWitness ==
  \E r \in Procs :
    /\ caller[r] = "check" /\ pc[r] = "done"
    /\ Len(inventoryCheck[r]) = 2
    /\ inventoryCheck[r][1].found /\ inventoryCheck[r][1].sufficient
    /\ ~inventoryCheck[r][2].found

ReleaseLabels == {"release_begin", "release_update", "release_del",
                  "release_delpattern", "release_delkeys", "release_commit",
                  "release_rollback"}
Takes(r, p) == Requested(body[r].items, p, Len(body[r].items))

\* C23: releaseInventory is entered for an order at most once and only after
\* the reserveInventory of the same order committed; it is called with the
\* item list of that reservation, so when it has committed the order holds
\* nothing of what the reservation took.
ReleaseOnlyCompensates ==
  \A r \in Procs :
    /\ calls[r].releaseInventory <= 1
    /\ (calls[r].releaseInventory > 0 \/ pc[r] \in ReleaseLabels)
       => /\ reservation[r] = "ok" /\ calls[r].reserveInventory = 1
          /\ orderId[r] \in DOMAIN orders
    /\ pc[r] \in ReleaseLabels \ {"release_begin"}
       => \A p \in Products : held[r][p] = Takes(r, p)
    /\ pc[r] = "mark_cancelled" => HoldsNothing(r)

\* The release of an order of two items has committed after the payment of
\* the order was refused.
ReleaseOnlyCompensatesWitness ==
  \E r \in Procs :
    /\ pc[r] = "mark_cancelled" /\ paymentOutcome[r] = "failed"
    /\ Len(body[r].items) = 2 /\ calls[r].releaseInventory = 1
    /\ stock_quantity = stock0

RECURSIVE HeldByAll(_, _)
HeldByAll(p, n) == IF n = 0 THEN 0 ELSE held[n][p] + HeldByAll(p, n - 1)

\* C25: for every product the initial stock is the committed stock plus what
\* the orders hold of it; an order holds either nothing or exactly the
\* quantities of its items, the latter from the commit of its reservation
\* until the commit of its release, and an order with status failed or
\* cancelled holds nothing.
StockConserved ==
  /\ \A p \in Products :
       stock0[p] = stock_quantity[p] + HeldByAll(p, Cardinality(Procs))
  /\ \A r \in Procs :
       /\ \/ \A p \in Products : held[r][p] = 0
          \/ reservation[r] = "ok" /\ \A p \in Products : held[r][p] = Takes(r, p)
       /\ (reservation[r] = "ok" /\ calls[r].releaseInventory = 0)
          => \A p \in Products : held[r][p] = Takes(r, p)
       /\ (orderId[r] \in DOMAIN orders
           /\ orders[orderId[r]].status \in {"failed", "cancelled"})
          => \A p \in Products : held[r][p] = 0

\* One order was cancelled and gave back its two pieces while a confirmed
\* order holds a piece.
StockConservedWitness ==
  \E r1, r2 \in Procs :
    /\ orderId[r1] \in DOMAIN orders /\ orders[orderId[r1]].status = "cancelled"
    /\ Len(body[r1].items) = 2
    /\ orderId[r2] \in DOMAIN orders /\ orders[orderId[r2]].status = "confirmed"
    /\ \E p \in Products : held[r2][p] = 1 /\ stock_quantity[p] = stock0[p] - 1

\* C26: every order row, committed or written by an open transaction, has
\* status confirmed if and only if its payment_status is completed, status
\* cancelled if and only if its payment_status is failed, and payment_status
\* pending when its status is pending or failed.
StatusAgrees ==
  \A row \in {orders[id] : id \in DOMAIN orders}
               \cup {txOrder[r][1] : r \in {q \in Procs : txOrder[q] # <<>>}} :
    /\ row.status = "confirmed" <=> row.payment_status = "completed"
    /\ row.status = "cancelled" <=> row.payment_status = "failed"
    /\ row.status \in {"pending", "failed"} => row.payment_status = "pending"
    /\ row.status \in {"pending", "failed", "confirmed", "cancelled"}

\* One order is cancelled and another one failed.
StatusAgreesWitness ==
  \E a, b \in DOMAIN orders :
    orders[a].status = "cancelled" /\ orders[b].status = "failed"

\* C27: once processPayment has returned success for an order, releaseInventory
\* is never entered for it, the order keeps the stock it reserved and its status
\* never becomes cancelled, whatever call of the store rejects afterwards.
PaidOrderKept ==
  \A r \in Procs :
    paymentOutcome[r] = "success"
    => /\ calls[r].releaseInventory = 0
       /\ orders[orderId[r]].status # "cancelled"
       /\ \A p \in Products : held[r][p] = Takes(r, p)

TransactionLabels == {"insert_order", "insert_item", "commit_order", "rollback_order",
                      "reserve_update", "reserve_del", "reserve_delpattern",
                      "reserve_delkeys", "reserve_commit", "reserve_rollback",
                      "release_update", "release_del", "release_delpattern",
                      "release_delkeys", "release_commit", "release_rollback"}
CheckedOut(r) == calls[r].getClient - calls[r].release
RECURSIVE CheckedOutAll(_)
CheckedOutAll(n) == IF n = 0 THEN 0 ELSE CheckedOut(n) + CheckedOutAll(n - 1)

\* C29: a request has a client of the pool checked out exactly while it is
\* inside one of its transactions; every client it acquired is released once,
\* never twice, whether the transaction committed, rolled back, or its BEGIN,
\* COMMIT or ROLLBACK rejected, so a request that has ended holds no client
\* and no row lock, and the pool's bound is never exceeded.
ClientsReturned ==
  /\ \A r \in Procs :
       /\ CheckedOut(r) \in {0, 1}
       /\ CheckedOut(r) = 1 <=> pc[r] \in TransactionLabels
       /\ pc[r] \in {"idle", "done", "returned", "threw"} => CheckedOut(r) = 0
       /\ \A p \in Products : rowLock[p] = r => CheckedOut(r) = 1
  /\ CheckedOutAll(Cardinality(Procs)) <= PoolMax

\* One request ended after three transactions, the last one rolled back; a
\* second one ended after the BEGIN of its first transaction rejected.
ClientsReturnedWitness ==
  \E r1, r2 \in Procs :
    /\ pc[r1] = "done" /\ calls[r1].getClient = 3 /\ calls[r1].release = 3
    /\ error[r1] = CacheError
    /\ pc[r2] = "done" /\ calls[r2].getClient = 1 /\ calls[r2].release = 1
    /\ error[r2] = StoreError /\ orderId[r2] = NoOrder

\* C28: a create-order request that passed the availability check does not
\* meet the floor in its reservation unless another request has changed stock:
\* while no other request has entered reserveInventory, no reservation fails
\* for insufficient stock, whatever the item list.
CheckedRequestReserves ==
  \A r \in Procs :
    (/\ caller[r] = "createOrder" /\ reservation[r] = "failed"
     /\ error[r] = ReserveError)
    => \E other \in Procs \ {r} : calls[other].reserveInventory > 0

RECURSIVE TakenByAll(_, _)
TakenByAll(p, n) == IF n = 0 THEN 0 ELSE Takes(n, p) + TakenByAll(p, n - 1)

\* C30: when the item lists of the concurrent reserveInventory calls together
\* ask for no more of any product than its stock, no call fails, whatever the
\* order in which each call lists its products.
AnyOrderReserves ==
  (/\ \A r \in Procs : caller[r] = "test"
   /\ \A p \in Products : TakenByAll(p, Cardinality(Procs)) <= stock0[p])
  => \A r \in Procs : pc[r] # "threw" /\ error[r] = NoError

\* C24: a run of the mode script with argument m in {direct, collector} on an
\* existing .env file leaves a file for which status reports m and which a
\* second run with m does not change, keeps every line that is not an
\* OTEL_MODE line as it was, and adds lines only when the file had no
\* OTEL_MODE line; a run with status, with another argument or with none
\* leaves the file unchanged, and status prints the mode the file holds.
ModeScriptContract ==
  [][lastRun' # lastRun \/ envFile' # envFile
     => IF lastRun'.argv \in {"direct", "collector"} /\ envFile.exists
          THEN LET m == lastRun'.argv
                   first == currentModeMatch(envFile')
               IN /\ lastRun'.exitCode = 0
                  /\ first # 0 /\ envFile'.lines[first] = ModeLine(m)
                  /\ currentMode(envFile') = <<m>>
                  /\ setMode(envFile', m) = envFile'
                  /\ Len(envFile'.lines) >= Len(envFile.lines)
                  /\ \A i \in 1..Len(envFile.lines) :
                       \/ envFile'.lines[i] = envFile.lines[i]
                       \/ i = currentModeMatch(envFile)
                  /\ currentModeMatch(envFile) # 0
                       => /\ Len(envFile'.lines) = Len(envFile.lines)
                          /\ envFile'.open = envFile.open
          ELSE /\ envFile' = envFile
               /\ lastRun'.argv = "status" /\ envFile.exists
                    => lastRun'.exitCode = 0 /\ lastRun'.reported = currentMode(envFile)
               /\ lastRun'.argv # "status" \/ ~envFile.exists
                    => lastRun'.exitCode = 1]_vars

\* A file without the variable was switched to collector, and status then
\* printed collector.
ModeScriptContractWitness ==
  /\ lastRun.argv = "status" /\ lastRun.reported = <<"collector">>
  /\ Len(envFile.lines) = 5
  /\ envFile.lines[1] = <<"PORT", "=", "3001">>
  /\ envFile.lines[2] = <<"#", " ", "OTEL_MODE", "=", "collector">>
  /\ envFile.lines[5] = ModeLine("collector")

====
